---- MODULE Spec2Model ----
(***************************************************************************)
(* A model of the kdp-project book-authoring application:                  *)
(*   - the in-memory repository MemStorage (books, chapters, covers) and   *)
(*     the HTTP routes that drive it (specification Spec);                 *)
(*   - the export packager exportBook of exportUtils.ts (specification     *)
(*     ExportSpec).                                                        *)
(***************************************************************************)
EXTENDS Integers, Sequences, FiniteSets, TLC

\* ------------------------------------------------------------------ bounds

\* How many ids randomUUID() hands out in one run of the repository.
MaxIds == 3
\* How far the wall clock (new Date()) advances.
MaxTime == 1

\* ------------------------------------------------------------ repository

VARIABLES books, chapters, covers, nextId, now, last

repoVars == <<books, chapters, covers, nextId, now, last>>

\* The state of one exportBook call (exportUtils.ts), see below.
VARIABLES xpc, xbook, xopts, zip, index, blob, html, downloads, printed, result, thrown, env

exportVars == <<xpc, xbook, xopts, zip, index, blob, html, downloads, printed, result, thrown, env>>

\* One application of a pure text function: the string it is given, which
\* function was applied, and what it returned (a boolean or a string).
VARIABLES input, applied, verdict, output

textVars == <<input, applied, verdict, output>>

\* One processDocument call: the file it is given, how the extraction went
\* (the environment's part), which copy ran, and how the promise settled.
VARIABLES file, extraction, ingested, processed

ingestVars == <<file, extraction, ingested, processed>>

\* One useFileUpload hook instance: its three React states, its uploadFile
\* calls in the order they were made, the calls whose progress interval and
\* whose 500 ms reset are armed, and the file names handed to processDocument
\* (uploadError is the hook's `error` state).
VARIABLES isUploading, progress, uploadError, calls, intervals, timeouts, dispatched

hookVars == <<isUploading, progress, uploadError, calls, intervals, timeouts, dispatched>>

\* One POST /api/upload request on the server.
VARIABLES request

uploadVars == <<hookVars, request>>

\* MemStorage.users, and the POST /api/auth/register requests in flight or
\* answered.
VARIABLES users, registrations

authVars == <<users, registrations>>

\* The Export page: useState exportFormats (each format's status) and
\* exportProgress, the mutation of generateExportMutation, whether the
\* progress interval of its mutationFn is armed, and whether useBooks has
\* given the page a book.
VARIABLES exportFormats, exportProgress, mutation, exportInterval, currentBook

pageVars == <<exportFormats, exportProgress, mutation, exportInterval, currentBook>>

\* The Generator page: useState generatedBooks, and the generateFullBook
\* calls with their timers.
VARIABLES generatedBooks, generations

generatorVars == <<generatedBooks, generations>>

\* What an action of one part of the program leaves alone.
outsideRepo == <<exportVars, textVars, ingestVars, uploadVars, authVars, pageVars, generatorVars>>
outsideExport == <<repoVars, textVars, ingestVars, uploadVars, authVars, pageVars, generatorVars>>
outsideText == <<repoVars, exportVars, ingestVars, uploadVars, authVars, pageVars, generatorVars>>
outsideIngest == <<repoVars, exportVars, textVars, uploadVars, authVars, pageVars, generatorVars>>
outsideHook == <<repoVars, exportVars, textVars, ingestVars, request, authVars, pageVars, generatorVars>>
outsideUploadRoute == <<repoVars, exportVars, textVars, ingestVars, hookVars, authVars, pageVars, generatorVars>>
outsideAuth == <<repoVars, exportVars, textVars, ingestVars, uploadVars, pageVars, generatorVars>>
outsidePage == <<repoVars, exportVars, textVars, ingestVars, uploadVars, authVars, generatorVars>>
outsideGenerator == <<repoVars, exportVars, textVars, ingestVars, uploadVars, authVars, pageVars>>

\* A string that randomUUID() never returns (any id a client makes up).
GhostId == 0
\* A field that a JSON payload does not carry.
Absent == -1
AbsentStr == "absent"

\* Ids a request can name: every id issued so far, and a made-up one.
ReqIds == 0 .. (nextId - 1)
Times == 0 .. MaxTime
Statuses == {"draft", "published"}
WordCounts == {0, 2}
Orders == {0, 1}

\* Map.delete(key) on a keyed map: the map without that key.
MapDelete(m, k) == [x \in (DOMAIN m) \ {k} |-> m[x]]
\* Map.set(key, value).
MapSet(m, k, v) == [x \in (DOMAIN m) \cup {k} |-> IF x = k THEN v ELSE m[x]]
\* Array.from(map.values()).
Values(m) == {m[k] : k \in DOMAIN m}

NoOp == [op |-> "none", id |-> GhostId, ret |-> FALSE]

RepoInit ==
    /\ books = <<>>
    /\ chapters = <<>>
    /\ covers = <<>>
    /\ nextId = 1
    /\ now = 0
    /\ last = NoOp

\* new Date() is read from a clock that only moves forward.
Tick ==
    /\ now < MaxTime
    /\ now' = now + 1
    /\ UNCHANGED <<books, chapters, covers, nextId, last>>
    /\ UNCHANGED outsideRepo

\* POST /api/books -> MemStorage.createBook
createBook(status) ==
    /\ LET id == nextId
           book == [id |-> id,
                    status |-> IF status = AbsentStr THEN "draft" ELSE status,
                    createdAt |-> now,
                    updatedAt |-> now]
       IN  /\ books' = MapSet(books, id, book)
           /\ nextId' = nextId + 1
           /\ last' = NoOp
    /\ UNCHANGED <<chapters, covers, now>>
    /\ UNCHANGED outsideRepo

\* { ...existing, ...updateBook, updatedAt: new Date() }
MergeBook(existing, p) ==
    [id |-> IF p.id = Absent THEN existing.id ELSE p.id,
     status |-> IF p.status = AbsentStr THEN existing.status ELSE p.status,
     createdAt |-> IF p.createdAt = Absent THEN existing.createdAt ELSE p.createdAt,
     updatedAt |-> now]

\* PATCH /api/books/:id -> MemStorage.updateBook (req.body is not validated)
updateBook(id, p) ==
    /\ IF id \in DOMAIN books
       THEN /\ books' = MapSet(books, id, MergeBook(books[id], p))
            /\ last' = NoOp
       ELSE /\ books' = books
            /\ last' = NoOp
    /\ UNCHANGED <<chapters, covers, nextId, now>>
    /\ UNCHANGED outsideRepo

\* chaptersToDelete.forEach(chapter => this.chapters.delete(chapter.id))
CascadeDelete(m, id) ==
    LET toDelete == {r \in Values(m) : r.bookId = id}
    IN  [x \in (DOMAIN m) \ {r.id : r \in toDelete} |-> m[x]]

\* DELETE /api/books/:id -> MemStorage.deleteBook
deleteBook(id) ==
    /\ chapters' = CascadeDelete(chapters, id)
    /\ covers' = CascadeDelete(covers, id)
    /\ books' = MapDelete(books, id)
    /\ last' = [op |-> "deleteBook", id |-> id, ret |-> (id \in DOMAIN books)]
    /\ UNCHANGED <<nextId, now>>
    /\ UNCHANGED outsideRepo

\* POST /api/books/:bookId/chapters -> MemStorage.createChapter
\* (a chapter's createdAt / updatedAt are written and never read: left out)
createChapter(bookId, order, wordCount) ==
    /\ LET id == nextId
           chapter == [id |-> id, bookId |-> bookId, order |-> order,
                       wordCount |-> wordCount]
       IN  /\ chapters' = MapSet(chapters, id, chapter)
           /\ nextId' = nextId + 1
           /\ last' = NoOp
    /\ UNCHANGED <<books, covers, now>>
    /\ UNCHANGED outsideRepo

\* { ...existing, ...updateChapter, updatedAt: new Date() }
MergeChapter(existing, p) ==
    [id |-> IF p.id = Absent THEN existing.id ELSE p.id,
     bookId |-> IF p.bookId = Absent THEN existing.bookId ELSE p.bookId,
     order |-> IF p.order = Absent THEN existing.order ELSE p.order,
     wordCount |-> IF p.wordCount = Absent THEN existing.wordCount ELSE p.wordCount]

\* PATCH /api/chapters/:id -> MemStorage.updateChapter (req.body is not validated)
updateChapter(id, p) ==
    /\ IF id \in DOMAIN chapters
       THEN /\ chapters' = MapSet(chapters, id, MergeChapter(chapters[id], p))
            /\ last' = NoOp
       ELSE /\ chapters' = chapters
            /\ last' = NoOp
    /\ UNCHANGED <<books, covers, nextId, now>>
    /\ UNCHANGED outsideRepo

\* DELETE /api/chapters/:id -> MemStorage.deleteChapter
deleteChapter(id) ==
    /\ chapters' = MapDelete(chapters, id)
    /\ last' = NoOp
    /\ UNCHANGED <<books, covers, nextId, now>>
    /\ UNCHANGED outsideRepo

\* POST /api/books/:bookId/covers -> MemStorage.createCover
createCover(bookId) ==
    /\ LET id == nextId
           cover == [id |-> id, bookId |-> bookId, createdAt |-> now]
       IN  /\ covers' = MapSet(covers, id, cover)
           /\ nextId' = nextId + 1
           /\ last' = NoOp
    /\ UNCHANGED <<books, chapters, now>>
    /\ UNCHANGED outsideRepo

\* { ...existing, ...updateCover }
MergeCover(existing, p) ==
    [id |-> IF p.id = Absent THEN existing.id ELSE p.id,
     bookId |-> IF p.bookId = Absent THEN existing.bookId ELSE p.bookId,
     createdAt |-> IF p.createdAt = Absent THEN existing.createdAt ELSE p.createdAt]

\* MemStorage.updateCover
updateCover(id, p) ==
    /\ IF id \in DOMAIN covers
       THEN /\ covers' = MapSet(covers, id, MergeCover(covers[id], p))
            /\ last' = NoOp
       ELSE /\ covers' = covers
            /\ last' = NoOp
    /\ UNCHANGED <<books, chapters, nextId, now>>
    /\ UNCHANGED outsideRepo

\* MemStorage.deleteCover
deleteCover(id) ==
    /\ covers' = MapDelete(covers, id)
    /\ last' = NoOp
    /\ UNCHANGED <<books, chapters, nextId, now>>
    /\ UNCHANGED outsideRepo

\* The payloads a request body can carry (a field is present or absent).
BookPatches(ids, statuses, times) ==
    [id : ids \cup {Absent}, status : statuses \cup {AbsentStr},
     createdAt : times \cup {Absent}]
ChapterPatches(ids, bookIds, orders, wordCounts) ==
    [id : ids \cup {Absent}, bookId : bookIds \cup {Absent},
     order : orders \cup {Absent}, wordCount : wordCounts \cup {Absent}]
CoverPatches(ids, bookIds, times) ==
    [id : ids \cup {Absent}, bookId : bookIds \cup {Absent},
     createdAt : times \cup {Absent}]

\* ---------------------------------------------------- repository queries

\* Array.from(map.values()): a Map iterates in insertion order, which is
\* the order of the keys, since keys are issued in increasing order and
\* Map.set on a stored key keeps its place.
RECURSIVE KeyList(_)
KeyList(ks) ==
    IF ks = {} THEN <<>>
    ELSE LET k == CHOOSE x \in ks : \A y \in ks : x <= y
         IN  <<k>> \o KeyList(ks \ {k})
ValueList(m) == LET ks == KeyList(DOMAIN m) IN [i \in DOMAIN ks |-> m[ks[i]]]

\* Array.prototype.sort with the comparator (a, b) => key(a) - key(b): a
\* stable sort, here by insertion. InsertSorted puts x behind every element
\* whose key is not greater.
RECURSIVE InsertSorted(_, _)
InsertSorted(sorted, x) ==
    IF sorted = <<>> THEN <<x>>
    ELSE IF Head(sorted).key <= x.key
         THEN <<Head(sorted)>> \o InsertSorted(Tail(sorted), x)
         ELSE <<x>> \o sorted
RECURSIVE SortByKey(_)
SortByKey(q) ==
    IF q = <<>> THEN <<>>
    ELSE InsertSorted(SortByKey(SubSeq(q, 1, Len(q) - 1)), q[Len(q)])
Rows(keyed) == [i \in DOMAIN keyed |-> keyed[i].row]

\* sort((a, b) => new Date(b.createdAt!).getTime() - new Date(a.createdAt!).getTime())
NewestFirst(q) ==
    Rows(SortByKey([i \in DOMAIN q |-> [key |-> 0 - q[i].createdAt, row |-> q[i]]]))

\* GET /api/books -> MemStorage.getBooks
getBooks ==
    /\ last' = [op |-> "getBooks", id |-> GhostId, ret |-> NewestFirst(ValueList(books))]
    /\ UNCHANGED <<books, chapters, covers, nextId, now>>
    /\ UNCHANGED outsideRepo

\* The mutant of getChaptersByBookId: the filtered chapters, not sorted.
getChaptersByBookIdUnsorted(bookId) ==
    /\ LET found == SelectSeq(ValueList(chapters), LAMBDA chapter : chapter.bookId = bookId)
       IN  last' = [op |-> "getChaptersByBookId", id |-> bookId, ret |-> found]
    /\ UNCHANGED <<books, chapters, covers, nextId, now>>
    /\ UNCHANGED outsideRepo

\* GET /api/books/:bookId/chapters -> MemStorage.getChaptersByBookId
getChaptersByBookId(bookId) ==
    /\ LET found == SelectSeq(ValueList(chapters), LAMBDA chapter : chapter.bookId = bookId)
       IN  last' = [op |-> "getChaptersByBookId", id |-> bookId,
                    ret |-> Rows(SortByKey([i \in DOMAIN found |->
                                               [key |-> found[i].order, row |-> found[i]]]))]
    /\ UNCHANGED <<books, chapters, covers, nextId, now>>
    /\ UNCHANGED outsideRepo

\* GET /api/books/:bookId/covers -> MemStorage.getCoversByBookId
getCoversByBookId(bookId) ==
    /\ LET found == SelectSeq(ValueList(covers), LAMBDA cover : cover.bookId = bookId)
       IN  last' = [op |-> "getCoversByBookId", id |-> bookId, ret |-> NewestFirst(found)]
    /\ UNCHANGED <<books, chapters, covers, nextId, now>>
    /\ UNCHANGED outsideRepo

\* allChapters.reduce((total, chapter) => total + (chapter.wordCount || 0), 0)
RECURSIVE SumWordCounts(_)
SumWordCounts(q) ==
    IF q = <<>> THEN 0
    ELSE SumWordCounts(SubSeq(q, 1, Len(q) - 1))
         + (IF q[Len(q)].wordCount \in {Absent, 0} THEN 0 ELSE q[Len(q)].wordCount)

\* The mutant of getBookStats: "in-progress" books are not counted.
getBookStatsDraftOnly ==
    /\ LET all == ValueList(books)
       IN  last' = [op |-> "getBookStats", id |-> GhostId,
                    ret |-> [booksInProgress |->
                                 Len(SelectSeq(all, LAMBDA book : book.status = "draft")),
                             publishedBooks |->
                                 Len(SelectSeq(all, LAMBDA book : book.status = "published")),
                             aiWordsGenerated |-> SumWordCounts(ValueList(chapters)),
                             monthlyRevenue |-> "$0"]]
    /\ UNCHANGED <<books, chapters, covers, nextId, now>>
    /\ UNCHANGED outsideRepo

\* GET /api/stats -> MemStorage.getBookStats
getBookStats ==
    /\ LET all == ValueList(books)
       IN  last' = [op |-> "getBookStats", id |-> GhostId,
                    ret |-> [booksInProgress |->
                                 Len(SelectSeq(all, LAMBDA book :
                                         book.status = "draft" \/ book.status = "in-progress")),
                             publishedBooks |->
                                 Len(SelectSeq(all, LAMBDA book : book.status = "published")),
                             aiWordsGenerated |-> SumWordCounts(ValueList(chapters)),
                             monthlyRevenue |-> "$0"]]
    /\ UNCHANGED <<books, chapters, covers, nextId, now>>
    /\ UNCHANGED outsideRepo

\* How many ids randomUUID() hands out in one run of the queried repository.
MaxRows == 3

\* The repository under requests that vary what the sorted queries read: the
\* clock, which a book's and a cover's createdAt come from, and a chapter's
\* order; a chapter or cover names the first book or a made-up one.
QueryNext ==
    \/ Tick
    \/ /\ nextId <= MaxRows
       /\ createBook(AbsentStr)
    \/ \E id \in DOMAIN books : deleteBook(id)
    \/ /\ nextId <= MaxRows
       /\ \E b \in {GhostId, 1}, order \in Orders : createChapter(b, order, 0)
    \/ \E id \in DOMAIN chapters :
          \E p \in ChapterPatches({}, {}, Orders, {}) : updateChapter(id, p)
    \/ \E id \in DOMAIN chapters : deleteChapter(id)
    \/ /\ nextId <= MaxRows
       /\ \E b \in {GhostId, 1} : createCover(b)
    \/ \E id \in DOMAIN covers : deleteCover(id)
    \/ getBooks
    \/ \E b \in {GhostId, 1} : getChaptersByBookId(b)
    \/ \E b \in {GhostId, 1} : getCoversByBookId(b)

\* The repository under requests that vary what getBookStats reads: a book's
\* status, and a chapter's wordCount (absent when the request leaves it out).
StatsNext ==
    \/ /\ nextId <= MaxRows
       /\ \E status \in {AbsentStr, "in-progress"} : createBook(status)
    \/ \E id \in DOMAIN books :
          \E p \in BookPatches({}, {"published", "archived"}, {}) : updateBook(id, p)
    \/ \E id \in DOMAIN books : deleteBook(id)
    \/ /\ nextId <= MaxRows
       /\ \E b \in {GhostId, 1}, wordCount \in {Absent, 2} : createChapter(b, 0, wordCount)
    \/ \E id \in DOMAIN chapters :
          \E p \in ChapterPatches({}, {}, {}, {0, 3}) : updateChapter(id, p)
    \/ \E id \in DOMAIN chapters : deleteChapter(id)
    \/ getBookStats

\* Books under PATCH bodies that carry a createdAt, while the clock moves.
TimestampNext ==
    \/ Tick
    \/ /\ nextId <= MaxRows
       /\ createBook(AbsentStr)
    \/ \E id \in DOMAIN books :
          \E p \in BookPatches({}, {}, Times) : updateBook(id, p)
    \/ \E id \in DOMAIN books : deleteBook(id)

\* ----------------------------------------------------------- registration

\* How many POST /api/auth/register requests one run has.
MaxRequests == 3

Usernames == {"", "ann", "bob"}
\* A password is read for its length only (the hash is stored, never compared
\* by this route).
PasswordLengths == {0, 5, 6}

AuthInit ==
    /\ users = <<>>
    /\ registrations = <<>>

\* storage.getUsers(), which the route calls and MemStorage does not define:
\* the call throws a TypeError (defined = FALSE), or, where a storage with
\* the method is in place, returns the stored users as the route's
\* `existingUsers.find(u => u.username === username)` expects.
getUsers == {users[k].username : k \in DOMAIN users}

\* POST /api/auth/register up to its first await: the field checks, then the
\* call of storage.getUsers().
Register(username, passwordLength, defined) ==
    /\ LET answer(status, message) ==
               [pc |-> "responded", username |-> username, existing |-> {},
                status |-> status, message |-> message]
       IN  registrations' = Append(registrations,
              IF username = "" \/ passwordLength = 0
              THEN answer(400, "Username and password are required")
              ELSE IF passwordLength < 6
              THEN answer(400, "Password must be at least 6 characters long")
              ELSE IF ~defined
              THEN answer(400, "Registration failed")
              ELSE [pc |-> "checking", username |-> username, existing |-> getUsers,
                    status |-> 0, message |-> ""])
    /\ UNCHANGED users
    /\ UNCHANGED outsideAuth

\* After `await storage.getUsers()`: the existence check, then the call of
\* bcrypt.hash.
RegisterChecked(r) ==
    /\ r \in DOMAIN registrations
    /\ registrations[r].pc = "checking"
    /\ registrations' =
          [registrations EXCEPT ![r] =
              IF @.username \in @.existing
              THEN [@ EXCEPT !.pc = "responded", !.status = 409,
                             !.message = "Username already exists"]
              ELSE [@ EXCEPT !.pc = "hashing"]]
    /\ UNCHANGED users
    /\ UNCHANGED outsideAuth

\* MemStorage.createUser: a new id, no look at the stored usernames.
createUser(username) ==
    MapSet(users, Cardinality(DOMAIN users) + 1,
           [id |-> Cardinality(DOMAIN users) + 1, username |-> username])

\* After `await bcrypt.hash(password, 10)`: createUser and the 201 answer.
RegisterHashed(r) ==
    /\ r \in DOMAIN registrations
    /\ registrations[r].pc = "hashing"
    /\ users' = createUser(registrations[r].username)
    /\ registrations' = [registrations EXCEPT ![r].pc = "responded", ![r].status = 201]
    /\ UNCHANGED outsideAuth

AuthNext ==
    \/ /\ Len(registrations) < MaxRequests
       /\ \E username \in Usernames, passwordLength \in PasswordLengths, defined \in BOOLEAN :
             Register(username, passwordLength, defined)
    \/ \E r \in DOMAIN registrations : RegisterChecked(r)
    \/ \E r \in DOMAIN registrations : RegisterHashed(r)

\* ------------------------------------------------------------ text helpers

\* Text is a sequence of one-character strings, so that the code's regular
\* expressions can be applied character by character.
UpperSeq == <<"A","B","C","D","E","F","G","H","I","J","K","L","M",
              "N","O","P","Q","R","S","T","U","V","W","X","Y","Z">>
LowerSeq == <<"a","b","c","d","e","f","g","h","i","j","k","l","m",
              "n","o","p","q","r","s","t","u","v","w","x","y","z">>
DigitSeq == <<"0","1","2","3","4","5","6","7","8","9">>
Range(q) == {q[i] : i \in DOMAIN q}

\* String.prototype.toLowerCase on one character.
toLowerCase(c) ==
    IF c \in Range(UpperSeq)
    THEN LowerSeq[CHOOSE i \in DOMAIN UpperSeq : UpperSeq[i] = c]
    ELSE c

\* The text as one string (the template literal's interpolation).
RECURSIVE Str(_)
Str(t) == IF t = <<>> THEN "" ELSE Head(t) \o Str(Tail(t))

\* text.replace(/c/g, rep)
RECURSIVE ReplaceAll(_, _, _)
ReplaceAll(t, c, rep) ==
    IF t = <<>> THEN <<>>
    ELSE (IF Head(t) = c THEN rep ELSE <<Head(t)>>) \o ReplaceAll(Tail(t), c, rep)

\* The mutant of escapeXML: the ampersand is replaced last.
escapeXMLAmpersandLast(text) ==
    LET a == ReplaceAll(text, "<", <<"&","l","t",";">>)
        b == ReplaceAll(a, ">", <<"&","g","t",";">>)
        c == ReplaceAll(b, "\"", <<"&","q","u","o","t",";">>)
        d == ReplaceAll(c, "'", <<"&","#","3","9",";">>)
    IN  ReplaceAll(d, "&", <<"&","a","m","p",";">>)

escapeXML(text) ==
    LET a == ReplaceAll(text, "&", <<"&","a","m","p",";">>)
        b == ReplaceAll(a, "<", <<"&","l","t",";">>)
        c == ReplaceAll(b, ">", <<"&","g","t",";">>)
        d == ReplaceAll(c, "\"", <<"&","q","u","o","t",";">>)
    IN  ReplaceAll(d, "'", <<"&","#","3","9",";">>)

\* The mutant of sanitizeFilename: no toLowerCase.
sanitizeFilenameKeepCase(filename) ==
    [i \in DOMAIN filename |->
        IF filename[i] \in Range(UpperSeq) \cup Range(LowerSeq) \cup Range(DigitSeq)
        THEN filename[i] ELSE "_"]

\* The mutant of sanitizeFilename: /[^a-z0-9]+/gi, a run becomes one "_".
sanitizeFilenameRuns(filename) ==
    LET one == [i \in DOMAIN filename |->
                   toLowerCase(IF filename[i] \in Range(UpperSeq) \cup Range(LowerSeq)
                                                  \cup Range(DigitSeq)
                               THEN filename[i] ELSE "_")]
        kept == {i \in DOMAIN one : ~(one[i] = "_" /\ i > 1 /\ one[i - 1] = "_")}
        keys == KeyList(kept)
    IN  [i \in DOMAIN keys |-> one[keys[i]]]

\* filename.replace(/[^a-z0-9]/gi, '_').toLowerCase()
sanitizeFilename(filename) ==
    [i \in DOMAIN filename |->
        toLowerCase(IF filename[i] \in Range(UpperSeq) \cup Range(LowerSeq) \cup Range(DigitSeq)
                    THEN filename[i] ELSE "_")]

Whitespace == {" ", "\n", "\t", "\r"}

\* String.prototype.trim
RECURSIVE TrimStart(_)
TrimStart(t) ==
    IF t # <<>> /\ Head(t) \in Whitespace THEN TrimStart(Tail(t)) ELSE t
RECURSIVE TrimEnd(_)
TrimEnd(t) ==
    IF t # <<>> /\ t[Len(t)] \in Whitespace THEN TrimEnd(SubSeq(t, 1, Len(t) - 1)) ELSE t
Trim(t) == TrimEnd(TrimStart(t))

\* content.split('\n\n'): cur is the piece being read.
RECURSIVE SplitBlankLines(_, _)
SplitBlankLines(t, cur) ==
    IF t = <<>> THEN <<cur>>
    ELSE IF Len(t) >= 2 /\ t[1] = "\n" /\ t[2] = "\n"
         THEN <<cur>> \o SplitBlankLines(SubSeq(t, 3, Len(t)), <<>>)
         ELSE SplitBlankLines(Tail(t), Append(cur, Head(t)))

\* The mutant of formatChapterContent: the paragraphs are not trimmed.
formatChapterContentNoTrim(content) ==
    LET parts == SplitBlankLines(content, <<>>)
    IN  [i \in DOMAIN parts |-> escapeXML(parts[i])]

\* The bodies of the <p> elements, in order.
formatChapterContent(content) ==
    LET parts == SplitBlankLines(content, <<>>)
    IN  [i \in DOMAIN parts |-> escapeXML(Trim(parts[i]))]

\* ------------------------------------------------------- document utilities

\* String.prototype.toLowerCase on a whole string.
LowerCase(t) == [i \in DOMAIN t |-> toLowerCase(t[i])]

\* text.split(sep) for a one-character separator: cur is the piece being read.
RECURSIVE Split(_, _, _)
Split(t, sep, cur) ==
    IF t = <<>> THEN <<cur>>
    ELSE IF Head(t) = sep
         THEN <<cur>> \o Split(Tail(t), sep, <<>>)
         ELSE Split(Tail(t), sep, Append(cur, Head(t)))

\* Array.prototype.pop on the array split returns (it is never empty).
Pop(a) == a[Len(a)]

\* filename.toLowerCase().split('.').pop()
ExtensionOf(filename) == Pop(Split(LowerCase(filename), ".", <<>>))

allowedExtensions ==
    { <<"p","d","f">>, <<"d","o","c","x">>, <<"o","d","t">>, <<"r","t","f">>,
      <<"t","x","t">>, <<"m","d">>, <<"m","a","r","k","d","o","w","n">>,
      <<"o","d","s">>, <<"o","d","p">> }

\* The client copy (documentUtils.ts): `extension || ''` turns only the
\* empty string into the empty string.
validateFileType(filename) ==
    LET extension == ExtensionOf(filename)
    IN  (IF extension = <<>> THEN <<>> ELSE extension) \in allowedExtensions

allowedExtensionsServer ==
    { <<"p","d","f">>, <<"d","o","c","x">>, <<"o","d","t">>, <<"r","t","f">>,
      <<"t","x","t">>, <<"m","d">>, <<"m","a","r","k","d","o","w","n">>,
      <<"o","d","s">>, <<"o","d","p">> }

\* The server copy (documentProcessor).
validateFileTypeServer(filename) ==
    LET extension == ExtensionOf(filename)
    IN  (IF extension = <<>> THEN <<>> ELSE extension) \in allowedExtensionsServer

\* ------------------------------------------- the text functions, applied

\* How many dot-separated parts a file name has at most.
MaxParts == 3
\* How many pieces a title or a text has at most.
MaxLen == 3

\* The parts file names are made of: every listed extension, some in upper
\* or mixed case, an unlisted one, a stem and the empty part.
NameParts ==
    allowedExtensions \cup
    { <<>>, <<"a">>, <<"P","D","F">>, <<"M","d">>, <<"d","o","c">> }

RECURSIVE JoinDots(_)
JoinDots(ps) ==
    IF Len(ps) = 1 THEN ps[1] ELSE ps[1] \o <<".">> \o JoinDots(Tail(ps))

Filenames == {JoinDots(ps) : ps \in UNION {[1 .. n -> NameParts] : n \in 1 .. MaxParts}}

\* The pieces titles and texts are made of: letters of both cases, a digit,
\* the underscore, punctuation, every character escapeXML rewrites, and two
\* pieces that are entities already.
TextPieces ==
    { <<"a">>, <<"T">>, <<"9">>, <<"_">>, <<" ">>, <<"!">>, <<";">>,
      <<"&">>, <<"<">>, <<">">>, <<"\"">>, <<"'">>,
      <<"&","l","t",";">>, <<"&","#","3","9",";">> }

RECURSIVE Flatten(_)
Flatten(ps) == IF ps = <<>> THEN <<>> ELSE Head(ps) \o Flatten(Tail(ps))

Texts == {Flatten(ps) : ps \in UNION {[1 .. n -> TextPieces] : n \in 0 .. MaxLen}}

TextInputs == Filenames \cup Texts

TextInit ==
    /\ input \in TextInputs
    /\ applied = "none"
    /\ verdict = FALSE
    /\ output = <<>>

\* No text function is being applied (the other specifications).
TextIdle ==
    /\ input = <<>>
    /\ applied = "none"
    /\ verdict = FALSE
    /\ output = <<>>

ApplyValidateFileType ==
    /\ applied = "none"
    /\ applied' = "validateFileType"
    /\ verdict' = validateFileType(input)
    /\ UNCHANGED <<input, output>>
    /\ UNCHANGED outsideText

ApplyValidateFileTypeServer ==
    /\ applied = "none"
    /\ applied' = "validateFileTypeServer"
    /\ verdict' = validateFileTypeServer(input)
    /\ UNCHANGED <<input, output>>
    /\ UNCHANGED outsideText

ApplySanitizeFilename ==
    /\ applied = "none"
    /\ applied' = "sanitizeFilename"
    /\ output' = sanitizeFilename(input)
    /\ UNCHANGED <<input, verdict>>
    /\ UNCHANGED outsideText

ApplyEscapeXML ==
    /\ applied = "none"
    /\ applied' = "escapeXML"
    /\ output' = escapeXML(input)
    /\ UNCHANGED <<input, verdict>>
    /\ UNCHANGED outsideText

TextNext ==
    \/ ApplyValidateFileType
    \/ ApplyValidateFileTypeServer
    \/ ApplySanitizeFilename
    \/ ApplyEscapeXML

\* The pieces chapter contents are made of: a letter, the three kinds of
\* whitespace the contents hold, and a character escapeXML rewrites. Two
\* newline pieces in a row are the blank-line separator.
ContentPieces == { <<"a">>, <<" ">>, <<"\n">>, <<"\t">>, <<"<">> }

ContentTexts == {Flatten(ps) : ps \in UNION {[1 .. n -> ContentPieces] : n \in 0 .. MaxLen}}

ParagraphInit ==
    /\ input \in ContentTexts
    /\ applied = "none"
    /\ verdict = FALSE
    /\ output = <<>>

\* output holds the bodies of the <p> elements.
ApplyFormatChapterContent ==
    /\ applied = "none"
    /\ applied' = "formatChapterContent"
    /\ output' = formatChapterContent(input)
    /\ UNCHANGED <<input, verdict>>
    /\ UNCHANGED outsideText

ParagraphNext == ApplyFormatChapterContent

\* ------------------------------------------------------------- ingestion

\* text.split(/\s+/): cur is the piece being read.
RECURSIVE SplitSpaces(_, _)
SplitSpaces(t, cur) ==
    IF t = <<>> THEN <<cur>>
    ELSE IF Head(t) \in Whitespace
         THEN <<cur>> \o SplitSpaces(TrimStart(Tail(t)), <<>>)
         ELSE SplitSpaces(Tail(t), Append(cur, Head(t)))

\* text.trim().split(/\s+/).filter(word => word.length > 0).length
calculateWordCount(text) ==
    LET words == SplitSpaces(Trim(text), <<>>)
    IN  Cardinality({i \in DOMAIN words : words[i] # <<>>})

\* Math.floor(Math.random() * n): the least and the greatest value.
RandomFloor(n) == {0, n - 1}

\* A File: its name and its content, page by page (a format without pages
\* has one). file.text() reads the content as one text.
FileText(f) == Flatten(f.pages)
FileSize(f) == Len(FileText(f))

Resolved(text, images, summary, wordCount) ==
    [state |-> "resolved", text |-> text, images |-> images, summary |-> summary,
     wordCount |-> wordCount, message |-> ""]
Rejected(message) ==
    [state |-> "rejected", text |-> "", images |-> <<>>, summary |-> "",
     wordCount |-> 0, message |-> message]
NotProcessed ==
    [state |-> "pending", text |-> "", images |-> <<>>, summary |-> "",
     wordCount |-> 0, message |-> ""]

\* What the environment throws when a read or a library call fails.
ExtractionError == "extraction failed"

\* How an extraction can go for a file: "ok", or the step that throws
\* (loading the library, reading the bytes, parsing them, reading a page,
\* rendering a page).
Extractions(f) ==
    LET extension == ExtensionOf(f.name)
    IN  IF extension = <<"p","d","f">>
        THEN {"ok", "import", "read", "parse"} \cup
             (IF f.pages # <<>> THEN {"page", "render"} ELSE {})
        ELSE IF extension = <<"d","o","c","x">> THEN {"ok", "import", "read", "parse"}
        ELSE IF extension \in {<<"o","d","t">>, <<"r","t","f">>, <<"t","x","t">>,
                               <<"m","d">>, <<"m","a","r","k","d","o","w","n">>}
             THEN {"ok", "read"}
        ELSE {"ok"}

processTextFile(f, how) ==
    IF how # "ok" THEN Rejected(ExtractionError)
    ELSE LET wordCount == calculateWordCount(FileText(f))
         IN  Resolved(Str(Trim(FileText(f))), <<>>,
                      "Text document with " \o ToString(wordCount) \o " words", wordCount)

\* The mutant of processPdfFile: no catch around the extraction.
processPdfFileNoCatch(f, how, r) ==
    IF how = "ok"
    THEN LET fullText == Flatten([i \in DOMAIN f.pages |-> f.pages[i] \o <<"\n", "\n">>])
             shown == IF Len(f.pages) <= 3 THEN Len(f.pages) ELSE 3
             wordCount == calculateWordCount(fullText)
         IN  Resolved(Str(Trim(fullText)),
                      [i \in 1 .. shown |-> "page-" \o ToString(i) \o ".png"],
                      "PDF document with " \o ToString(Len(f.pages)) \o " pages and "
                          \o ToString(wordCount) \o " words",
                      wordCount)
    ELSE Rejected(ExtractionError)

\* Text of every page followed by a blank line; an image of each of the first
\* three pages; on any throw, the placeholder with a made-up word count.
processPdfFile(f, how, r) ==
    IF how = "ok"
    THEN LET fullText == Flatten([i \in DOMAIN f.pages |-> f.pages[i] \o <<"\n", "\n">>])
             shown == IF Len(f.pages) <= 3 THEN Len(f.pages) ELSE 3
             wordCount == calculateWordCount(fullText)
         IN  Resolved(Str(Trim(fullText)),
                      [i \in 1 .. shown |-> "page-" \o ToString(i) \o ".png"],
                      "PDF document with " \o ToString(Len(f.pages)) \o " pages and "
                          \o ToString(wordCount) \o " words",
                      wordCount)
    ELSE LET wordCount == r + 1000
         IN  Resolved("PDF content extracted from " \o Str(f.name) \o ". Estimated "
                          \o ToString(wordCount) \o " words.",
                      <<>>,
                      "PDF document processed (" \o ToString(FileSize(f)) \o " bytes)",
                      wordCount)

\* mammoth.extractRawText(...).value || ''
processDocxFile(f, how, r) ==
    IF how = "ok"
    THEN LET wordCount == calculateWordCount(FileText(f))
         IN  Resolved(Str(Trim(FileText(f))), <<>>,
                      "DOCX document with " \o ToString(wordCount) \o " words", wordCount)
    ELSE LET wordCount == r + 2000
         IN  Resolved("DOCX content extracted from " \o Str(f.name) \o ". Estimated "
                          \o ToString(wordCount) \o " words.",
                      <<>>,
                      "DOCX document processed (" \o ToString(FileSize(f)) \o " bytes)",
                      wordCount)

\* String.prototype.toUpperCase on the extensions processOtherFormats gets.
ExtensionUpper(extension) == IF extension = <<"r","t","f">> THEN "RTF" ELSE "ODT"

\* text.replace(/\s+/g, ' '): the words joined by one space, with a space
\* where the text starts or ends with white space.
RECURSIVE JoinSpaces(_)
JoinSpaces(ws) ==
    IF Len(ws) = 1 THEN ws[1] ELSE ws[1] \o <<" ">> \o JoinSpaces(Tail(ws))

\* The RTF clean-up of a text that holds no brace and no backslash (the file
\* contents used here hold none): the three control-code replacements find
\* nothing, white space is normalised, and the text is trimmed.
CleanRtf(text) == Trim(JoinSpaces(SplitSpaces(text, <<>>)))

processOtherFormats(f, extension, how, r) ==
    IF how = "ok"
    THEN LET cleanText == IF extension = <<"r","t","f">> THEN CleanRtf(FileText(f))
                                                        ELSE FileText(f)
             wordCount == calculateWordCount(cleanText)
         IN  Resolved(Str(cleanText), <<>>,
                      ExtensionUpper(extension) \o " document with "
                          \o ToString(wordCount) \o " words",
                      wordCount)
    ELSE LET wordCount == r + 1500
         IN  Resolved(ExtensionUpper(extension) \o " content extracted from " \o Str(f.name)
                          \o ". Estimated " \o ToString(wordCount) \o " words.",
                      <<>>,
                      ExtensionUpper(extension) \o " document processed ("
                          \o ToString(FileSize(f)) \o " bytes)",
                      wordCount)

\* The catch of processDocument: every throw inside the switch is rethrown
\* as an Error with the prefixed message.
Rewrap(settled) ==
    IF settled.state = "rejected"
    THEN Rejected("Failed to process document: " \o settled.message)
    ELSE settled

\* processDocument (documentUtils.ts): how is the extraction's outcome, r the
\* three random numbers the placeholders draw from.
processDocument(f, how, r) ==
    LET extension == ExtensionOf(f.name)
    IN  Rewrap(
          IF extension \in {<<"t","x","t">>, <<"m","d">>, <<"m","a","r","k","d","o","w","n">>}
          THEN processTextFile(f, how)
          ELSE IF extension = <<"p","d","f">> THEN processPdfFile(f, how, r.pdf)
          ELSE IF extension = <<"d","o","c","x">> THEN processDocxFile(f, how, r.docx)
          ELSE IF extension \in {<<"o","d","t">>, <<"r","t","f">>}
               THEN processOtherFormats(f, extension, how, r.other)
          ELSE Rejected("Unsupported file format: " \o Str(extension)))

\* The draws of Math.random() in the three placeholders.
Randoms == [pdf : RandomFloor(10000), docx : RandomFloor(15000), other : RandomFloor(8000)]

\* processDocument (server, documentProcessor): it reads nothing that can
\* fail, returns no wordCount, and every format but text gets a placeholder.
processDocumentServer(f, r) ==
    LET extension == ExtensionOf(f.name)
    IN  Rewrap(
          IF extension \in {<<"t","x","t">>, <<"m","d">>, <<"m","a","r","k","d","o","w","n">>}
          THEN Resolved(Str(Trim(FileText(f))), <<>>,
                        "Text document with "
                            \o ToString(Len(SplitSpaces(FileText(f), <<>>))) \o " words", 0)
          ELSE IF extension = <<"p","d","f">>
               THEN Resolved("PDF content extracted from file. Word count: approximately "
                                 \o ToString(r.pdf + 1000) \o " words.", <<>>,
                             "PDF document processed and text extracted", 0)
          ELSE IF extension = <<"d","o","c","x">>
               THEN Resolved("DOCX content extracted from file. Word count: approximately "
                                 \o ToString(r.docx + 2000) \o " words.", <<>>,
                             "DOCX document processed and text extracted", 0)
          ELSE IF extension \in {<<"o","d","t">>, <<"r","t","f">>}
               THEN Resolved(ExtensionUpper(extension)
                                 \o " content extracted from file. Word count: approximately "
                                 \o ToString(r.other + 1500) \o " words.", <<>>,
                             ExtensionUpper(extension) \o " document processed and text extracted",
                             0)
          ELSE Rejected("Unsupported file format: " \o Str(extension)))

\* File names: every listed extension, upper case, an unlisted extension, a
\* name with no dot.
UploadNames ==
    {<<"a", ".">> \o e : e \in allowedExtensions} \cup
    { <<"a", ".", "P", "D", "F">>, <<"a", ".", "e", "x", "e">>, <<"p", "d", "f">> }

\* File contents: no page, one page, two pages.
PageSets ==
    { <<>>, << <<" ", "a", " ", " ", "b", "\n">> >>, << <<"a">>, <<>> >> }

Files == [name : UploadNames, pages : PageSets]
NoFile == [name |-> <<>>, pages |-> <<>>]

IngestInit ==
    /\ file \in Files
    /\ extraction = "none"
    /\ ingested = "none"
    /\ processed = NotProcessed

\* No processDocument call is being followed (the other specifications).
IngestIdle ==
    /\ file = NoFile
    /\ extraction = "none"
    /\ ingested = "none"
    /\ processed = NotProcessed

\* processDocument(file) on the client, to its settlement.
ProcessDocument(how, r) ==
    /\ ingested = "none"
    /\ how \in Extractions(file)
    /\ ingested' = "client"
    /\ extraction' = how
    /\ processed' = processDocument(file, how, r)
    /\ UNCHANGED file
    /\ UNCHANGED outsideIngest

\* processDocument(buffer, originalname, mimetype) on the server.
ProcessDocumentServer(r) ==
    /\ ingested = "none"
    /\ ingested' = "server"
    /\ extraction' = "ok"
    /\ processed' = processDocumentServer(file, r)
    /\ UNCHANGED file
    /\ UNCHANGED outsideIngest

IngestNext ==
    \/ \E how \in {"ok", "import", "read", "parse", "page", "render"}, r \in Randoms :
          ProcessDocument(how, r)
    \/ \E r \in Randoms : ProcessDocumentServer(r)

\* ---------------------------------------------------------------- upload

UnsupportedMessage ==
    "Unsupported file type. Please upload PDF, DOCX, ODT, RTF, TXT, MD, ODS, or ODP files."

\* What uploadFile has returned: nothing yet, null, or an UploadResult.
NoResult == [state |-> "pending", text |-> "", summary |-> "", wordCount |-> 0]
NullResult == [state |-> "null", text |-> "", summary |-> "", wordCount |-> 0]
UploadResult(text, summary, wordCount) ==
    [state |-> "result", text |-> text, summary |-> summary, wordCount |-> wordCount]

\* The bodies /api/upload answers with, as far as the hook reads them.
ServerResults ==
    { [text |-> "", summary |-> "", wordCount |-> 0],
      [text |-> "server text", summary |-> "server summary", wordCount |-> 2] }

NoRequest == [pc |-> "idle", file |-> NoFile, status |-> 0, message |-> "", dispatched |-> FALSE]

\* useState(false), useState(0), useState(null); no request on the server.
UploadInit ==
    /\ isUploading = FALSE
    /\ progress = 0
    /\ uploadError = AbsentStr
    /\ calls = <<>>
    /\ intervals = {}
    /\ timeouts = {}
    /\ dispatched = <<>>
    /\ request = NoRequest

\* The mutant of uploadFile: the upload state is started before the file
\* name is validated.
uploadFileStartsFirst(f) ==
    LET c == Len(calls) + 1
    IN  /\ IF f = NoFile
           THEN /\ uploadError' = "No file provided"
                /\ calls' = Append(calls, [pc |-> "returned", file |-> f, ret |-> NullResult,
                                           toast |-> "none"])
                /\ UNCHANGED <<isUploading, progress, intervals, dispatched>>
           ELSE IF ~validateFileType(f.name)
           THEN /\ isUploading' = TRUE
                /\ progress' = 0
                /\ uploadError' = UnsupportedMessage
                /\ calls' = Append(calls, [pc |-> "returned", file |-> f, ret |-> NullResult,
                                           toast |-> "none"])
                /\ UNCHANGED <<intervals, dispatched>>
           ELSE /\ isUploading' = TRUE
                /\ progress' = 0
                /\ uploadError' = AbsentStr
                /\ intervals' = intervals \cup {c}
                /\ dispatched' = Append(dispatched, f.name)
                /\ calls' = Append(calls, [pc |-> "processing", file |-> f, ret |-> NoResult,
                                           toast |-> "none"])
        /\ UNCHANGED timeouts
        /\ UNCHANGED outsideHook

\* uploadFile(file) up to its first await: NoFile is a missing file.
uploadFile(f) ==
    LET c == Len(calls) + 1
    IN  /\ IF f = NoFile
           THEN /\ uploadError' = "No file provided"
                /\ calls' = Append(calls, [pc |-> "returned", file |-> f, ret |-> NullResult,
                                           toast |-> "none"])
                /\ UNCHANGED <<isUploading, progress, intervals, dispatched>>
           ELSE IF ~validateFileType(f.name)
           THEN /\ uploadError' = UnsupportedMessage
                /\ calls' = Append(calls, [pc |-> "returned", file |-> f, ret |-> NullResult,
                                           toast |-> "none"])
                /\ UNCHANGED <<isUploading, progress, intervals, dispatched>>
           ELSE /\ isUploading' = TRUE
                /\ progress' = 0
                /\ uploadError' = AbsentStr
                /\ intervals' = intervals \cup {c}
                /\ dispatched' = Append(dispatched, f.name)
                /\ calls' = Append(calls, [pc |-> "processing", file |-> f, ret |-> NoResult,
                                           toast |-> "none"])
        /\ UNCHANGED timeouts
        /\ UNCHANGED outsideHook

\* The progress interval of call c fires (every 200 ms while it is armed).
IntervalFires(c) ==
    /\ c \in intervals
    /\ IF progress >= 90
       THEN intervals' = intervals \ {c} /\ progress' = 90
       ELSE progress' = progress + 10 /\ UNCHANGED intervals
    /\ UNCHANGED <<isUploading, uploadError, calls, timeouts, dispatched>>
    /\ UNCHANGED outsideHook

\* processDocument(file) settles: on success the interval is cleared, the
\* progress completed and /api/upload called; on failure the catch reports.
ProcessSettles(c, how, r) ==
    /\ c \in DOMAIN calls
    /\ calls[c].pc = "processing"
    /\ how \in Extractions(calls[c].file)
    /\ LET p == processDocument(calls[c].file, how, r)
       IN  IF p.state = "resolved"
           THEN /\ intervals' = intervals \ {c}
                /\ progress' = 100
                /\ calls' = [calls EXCEPT ![c].pc = "fetching",
                                          ![c].ret = [UploadResult(p.text, p.summary, p.wordCount)
                                                        EXCEPT !.state = "pending"]]
                /\ UNCHANGED <<isUploading, uploadError>>
           ELSE /\ uploadError' = p.message
                /\ isUploading' = FALSE
                /\ progress' = 0
                /\ calls' = [calls EXCEPT ![c].pc = "returned", ![c].ret = NullResult,
                                          ![c].toast = "Upload Failed"]
                /\ UNCHANGED intervals
    /\ UNCHANGED <<timeouts, dispatched>>
    /\ UNCHANGED outsideHook

\* The end of a successful call: the 500 ms reset is armed, the toast shown
\* and the result returned.
Complete(c, ret) ==
    /\ timeouts' = timeouts \cup {c}
    /\ calls' = [calls EXCEPT ![c].pc = "returned",
                              ![c].ret = [ret EXCEPT !.state = "result"],
                              ![c].toast = "Upload Complete"]
    /\ UNCHANGED <<isUploading, progress, uploadError, intervals, dispatched>>
    /\ UNCHANGED outsideHook

\* fetch('/api/upload') settles: it throws, or answers not ok, or answers ok
\* and the body is read next.
FetchSettles(c, outcome) ==
    /\ c \in DOMAIN calls
    /\ calls[c].pc = "fetching"
    /\ IF outcome = "ok"
       THEN /\ calls' = [calls EXCEPT ![c].pc = "reading"]
            /\ UNCHANGED <<isUploading, progress, uploadError, intervals, timeouts, dispatched>>
            /\ UNCHANGED outsideHook
       ELSE Complete(c, calls[c].ret)

\* response.json() settles: a thrown uploadError keeps the client's result, a body
\* replaces the fields it carries (`serverResult.text || result.text`).
JsonSettles(c, ok, body) ==
    /\ c \in DOMAIN calls
    /\ calls[c].pc = "reading"
    /\ IF ok
       THEN Complete(c, [calls[c].ret EXCEPT
                !.text = IF body.text # "" THEN body.text ELSE @,
                !.summary = IF body.summary # "" THEN body.summary ELSE @,
                !.wordCount = IF body.wordCount # 0 THEN body.wordCount ELSE @])
       ELSE Complete(c, calls[c].ret)

\* The reset armed by call c fires 500 ms after the call completed.
TimeoutFires(c) ==
    /\ c \in timeouts
    /\ timeouts' = timeouts \ {c}
    /\ isUploading' = FALSE
    /\ progress' = 0
    /\ UNCHANGED <<uploadError, calls, intervals, dispatched>>
    /\ UNCHANGED outsideHook

resetUpload ==
    /\ isUploading' = FALSE
    /\ progress' = 0
    /\ uploadError' = AbsentStr
    /\ UNCHANGED <<calls, intervals, timeouts, dispatched>>
    /\ UNCHANGED outsideHook

\* POST /api/upload up to its first await: hasFile is whether multer found a
\* file in the request.
PostUpload(hasFile, f) ==
    /\ request.pc = "idle"
    /\ IF ~hasFile
       THEN request' = [NoRequest EXCEPT !.pc = "responded", !.status = 400,
                                         !.message = "No file uploaded"]
       ELSE IF ~validateFileTypeServer(f.name)
       THEN request' = [NoRequest EXCEPT !.pc = "responded", !.file = f, !.status = 400,
                                         !.message = "Unsupported file type"]
       ELSE request' = [NoRequest EXCEPT !.pc = "processing", !.file = f, !.dispatched = TRUE]
    /\ UNCHANGED outsideUploadRoute

\* processDocument settles on the server: a rejection is answered with 500,
\* otherwise extractTextFromDocument is called (it never rejects).
PostUploadProcessed(r) ==
    /\ request.pc = "processing"
    /\ LET p == processDocumentServer(request.file, r)
       IN  IF p.state = "rejected"
           THEN request' = [request EXCEPT !.pc = "responded", !.status = 500,
                                           !.message = "Failed to process document"]
           ELSE request' = [request EXCEPT !.pc = "analysing"]
    /\ UNCHANGED outsideUploadRoute

\* extractTextFromDocument settles and the processed document is sent.
PostUploadAnalysed ==
    /\ request.pc = "analysing"
    /\ request' = [request EXCEPT !.pc = "responded", !.status = 200]
    /\ UNCHANGED outsideUploadRoute

\* The files of the upload flows: every name, one content.
UploadFiles == [name : UploadNames, pages : { << <<" ", "a", " ", " ", "b", "\n">> >> }]
\* One draw of the placeholders' random numbers.
UploadRandoms == [pdf : {0}, docx : {0}, other : {0}]

\* The first uploadFile call of a fresh hook instance, with its timers, and
\* one request to POST /api/upload.
UploadNext ==
    \/ /\ calls = <<>>
       /\ \E f \in UploadFiles \cup {NoFile} : uploadFile(f)
    \/ \E c \in DOMAIN calls : IntervalFires(c)
    \/ \E c \in DOMAIN calls, how \in {"ok", "import", "read", "parse", "page", "render"},
          r \in UploadRandoms : ProcessSettles(c, how, r)
    \/ \E c \in DOMAIN calls, outcome \in {"throws", "notOk", "ok"} : FetchSettles(c, outcome)
    \/ \E c \in DOMAIN calls, ok \in BOOLEAN, body \in ServerResults : JsonSettles(c, ok, body)
    \/ \E c \in DOMAIN calls : TimeoutFires(c)
    \/ resetUpload
    \/ \E hasFile \in BOOLEAN, f \in UploadFiles : PostUpload(hasFile, f)
    \/ \E r \in UploadRandoms : PostUploadProcessed(r)
    \/ PostUploadAnalysed

\* How many times uploadFile is called on one hook instance.
MaxCalls == 2

\* The files of the concurrent calls: one that processDocument resolves, one
\* that passes the validation and that processDocument rejects, one that the
\* validation rejects.
HookFiles ==
    [name : { <<"a", ".", "t", "x", "t">>, <<"a", ".", "o", "d", "s">>,
              <<"a", ".", "e", "x", "e">> },
     pages : { << <<"a", " ", "b">> >> }]

\* uploadFile calls on one hook instance, interleaved at their awaits, with
\* the timers they arm.
HookNext ==
    \/ /\ Len(calls) < MaxCalls
       /\ \E f \in HookFiles : uploadFile(f)
    \/ \E c \in DOMAIN calls : IntervalFires(c)
    \/ \E c \in DOMAIN calls, how \in {"ok", "read"}, r \in UploadRandoms :
          ProcessSettles(c, how, r)
    \/ \E c \in DOMAIN calls, outcome \in {"throws", "notOk", "ok"} : FetchSettles(c, outcome)
    \/ \E c \in DOMAIN calls, ok \in BOOLEAN, body \in ServerResults : JsonSettles(c, ok, body)
    \/ \E c \in DOMAIN calls : TimeoutFires(c)

\* ------------------------------------------------------------ export packager

\* How many chapters Book.content holds at most.
MaxChapters == 2

Formats == {"kindle", "epub", "pdf", "docx", "print-ready", "mobi"}
EpubFormats == {"kindle", "epub"}

\* The chapters a Book.content entry is drawn from; the last one lacks its
\* content field (a snapshot that was stored without text).
ChapterPool ==
    { [title |-> <<"C","h"," ","1">>, hasContent |-> TRUE,
       content |-> <<"P","a",".","\n","\n","Q","b",".">>],
      [title |-> <<"A","<","B">>, hasContent |-> TRUE,
       content |-> <<"x"," ","&"," ","y">>],
      [title |-> <<"C","3">>, hasContent |-> FALSE, content |-> <<>>] }

ExportTitles ==
    { <<"T","e","s","t"," ","T","i","t","l","e","!">>, <<"A","&","B">>, <<"A",","," ","B">> }

Contents == UNION {[1 .. n -> ChapterPool] : n \in 0 .. MaxChapters}

\* Book as exportBook reads it: content may be absent (null).
ExportBooks ==
    { b \in [title : ExportTitles, hasContent : BOOLEAN, content : Contents,
             coverUrl : BOOLEAN] : ~b.hasContent => b.content = <<>> }

ExportOptionSets == [format : Formats, includeImages : BOOLEAN]

UUIDs == {"uuid-a", "uuid-b"}

NoError == [raised |-> FALSE, isError |-> FALSE, message |-> ""]
Error(message) == [raised |-> TRUE, isError |-> TRUE, message |-> message]
NoEnv == [cover |-> "none", window |-> "none", generate |-> "none", save |-> "none"]
Pending == [state |-> "pending", message |-> ""]
NoDoc == [kind |-> "none"]

\* const chapters = Array.isArray(book.content) ? book.content : []
chaptersOf(book) == IF book.hasContent THEN book.content ELSE <<>>

\* Mutant: the chapter files are numbered from 0.
ChapterFileNameFromZero(i) == "chapter" \o ToString(i) \o ".xhtml"

ChapterId(i) == "chapter" \o ToString(i + 1)
ChapterHref(i) == "chapter" \o ToString(i + 1) \o ".xhtml"
\* `chapter${index + 1}.xhtml` in the forEach of exportToKindle / exportToEPUB
ChapterFileName(i) == "chapter" \o ToString(i + 1) \o ".xhtml"

createContainerXML == [kind |-> "container", rootfile |-> "OEBPS/content.opf"]

\* The manifest items and the spine of content.opf; array indices are 0-based.
createContentOPF(book, options, uuid) ==
    LET chs == chaptersOf(book)
        n == Len(chs)
        static == << [id |-> "ncx", href |-> "toc.ncx"],
                     [id |-> "stylesheet", href |-> "stylesheet.css"],
                     [id |-> "title", href |-> "title.xhtml"],
                     [id |-> "toc", href |-> "toc.xhtml"] >>
        chapterItems == [k \in 1 .. n |-> [id |-> ChapterId(k - 1), href |-> ChapterHref(k - 1)]]
        coverItems == IF options.includeImages /\ book.coverUrl
                      THEN << [id |-> "cover-img", href |-> "cover.jpg"] >> ELSE <<>>
    IN  [kind |-> "opf",
         title |-> escapeXML(book.title),
         identifier |-> uuid,
         manifest |-> static \o chapterItems \o coverItems,
         spine |-> <<"title", "toc">> \o [k \in 1 .. n |-> ChapterId(k - 1)],
         guide |-> (options.includeImages /\ book.coverUrl)]

\* Mutant: the chapters' playOrder starts at 2, colliding with the TOC page.
createTOCNCXFromTwo(book, uuid) ==
    LET chs == IF book.hasContent THEN book.content ELSE <<>>
    IN  [kind |-> "ncx",
         uid |-> uuid,
         docTitle |-> <<>>,
         navMap |-> << [playOrder |-> 1, label |-> "Title Page", src |-> "title.xhtml"],
                       [playOrder |-> 2, label |-> "Table of Contents", src |-> "toc.xhtml"] >>
                    \o [k \in 1 .. Len(chs) |->
                          [playOrder |-> (k - 1) + 2,
                           label |-> "",
                           src |-> "chapter" \o ToString(k) \o ".xhtml"]]]

\* The navPoints of toc.ncx.
createTOCNCX(book, uuid) ==
    LET chs == chaptersOf(book)
    IN  [kind |-> "ncx",
         uid |-> uuid,
         docTitle |-> escapeXML(book.title),
         navMap |-> << [playOrder |-> 1, label |-> "Title Page", src |-> "title.xhtml"],
                       [playOrder |-> 2, label |-> "Table of Contents", src |-> "toc.xhtml"] >>
                    \o [k \in 1 .. Len(chs) |->
                          [playOrder |-> (k - 1) + 3,
                           label |-> Str(escapeXML(chs[k].title)),
                           src |-> ChapterHref(k - 1)]]]

\* An optional field of ExportOptions: what options.field evaluates to, with
\* unset standing for undefined. Sizes are numbers: a font size in points, a
\* line spacing in tenths (16 is 1.6), a margin in hundredths of an inch.
OptionOf(options, field, unset) ==
    IF field \in DOMAIN options THEN options[field] ELSE unset
\* options.field || fallback, for a string and for a number: the empty string,
\* 0 and undefined are falsy.
StringOr(options, field, fallback) ==
    IF OptionOf(options, field, AbsentStr) \in {AbsentStr, ""}
    THEN fallback ELSE options[field]
NumberOr(options, field, fallback) ==
    IF OptionOf(options, field, Absent) \in {Absent, 0}
    THEN fallback ELSE options[field]

\* The mutant of createKindleCSS: the body font is the @media amzn-kf8 one.
createKindleCSSSerifBody(options) ==
    [kind |-> "css",
     comment |-> "Kindle-optimized styles",
     fontFamily |-> "serif",
     fontSize |-> NumberOr(options, "fontSize", 12),
     lineHeight |-> NumberOr(options, "lineSpacing", 16),
     bodyMargin |-> "0",
     headingPageBreak |-> TRUE,
     headingSizes |-> TRUE,
     paragraphMargin |-> "0",
     kf8Media |-> TRUE]

\* The rules of a stylesheet that vary with the options or between the two
\* stylesheets; the rules both share word for word are left out.
createKindleCSS(options) ==
    [kind |-> "css",
     comment |-> "Kindle-optimized styles",
     fontFamily |-> StringOr(options, "fontFamily", "Georgia, serif"),
     fontSize |-> NumberOr(options, "fontSize", 12),
     lineHeight |-> NumberOr(options, "lineSpacing", 16),
     bodyMargin |-> "0",
     headingPageBreak |-> TRUE,
     headingSizes |-> TRUE,
     paragraphMargin |-> "0",
     kf8Media |-> TRUE]
createEPUBCSS(options) ==
    [kind |-> "css",
     comment |-> "Standard EPUB styles",
     fontFamily |-> StringOr(options, "fontFamily", "Georgia, serif"),
     fontSize |-> NumberOr(options, "fontSize", 12),
     lineHeight |-> NumberOr(options, "lineSpacing", 16),
     bodyMargin |-> "0",
     headingPageBreak |-> FALSE,
     headingSizes |-> FALSE,
     paragraphMargin |-> "unset",
     kf8Media |-> FALSE]
createTitlePage(book) == [kind |-> "title", title |-> escapeXML(book.title)]
createTOCPage(book) ==
    LET chs == chaptersOf(book)
    IN  [kind |-> "tocpage",
         links |-> [k \in 1 .. Len(chs) |->
                      [href |-> ChapterHref(k - 1), label |-> escapeXML(chs[k].title)]]]
createChapterXHTML(chapter) ==
    [kind |-> "chapter", title |-> escapeXML(chapter.title),
     paragraphs |-> formatChapterContent(chapter.content)]

\* formatChapterContent(undefined): content.split throws.
SplitOfUndefined == "Cannot read properties of undefined (reading 'split')"

\* The title page and the chapters of an HTML document.
HTMLBody(book) ==
    LET chs == chaptersOf(book)
    IN  [title |-> escapeXML(book.title),
         chapters |-> [k \in 1 .. Len(chs) |->
                         [title |-> escapeXML(chs[k].title),
                          paragraphs |-> formatChapterContent(chs[k].content)]]]

\* options.margins, or undefined
NoMargins == [top |-> Absent, right |-> Absent, bottom |-> Absent, left |-> Absent]
MarginsOr(options, fallback) ==
    IF OptionOf(options, "margins", NoMargins) = NoMargins THEN fallback ELSE options.margins

\* The mutant of createPDFHTML: the @page margin falls back to 0.75in.
createPDFHTMLNarrowMargins(book, options) ==
    [kind |-> "pdf-html",
     body |-> HTMLBody(book),
     pageSize |-> IF OptionOf(options, "paperSize", AbsentStr) = "a4" THEN "A4" ELSE "8.5in 11in",
     pageMargin |-> MarginsOr(options, [top |-> 75, right |-> 75, bottom |-> 75, left |-> 75]),
     fontFamily |-> StringOr(options, "fontFamily", "Georgia, serif"),
     fontSize |-> NumberOr(options, "fontSize", 12),
     lineHeight |-> NumberOr(options, "lineSpacing", 16)]

\* One HTML document: its body and the rules of its <style> that vary with
\* the options.
createPDFHTML(book, options) ==
    [kind |-> "pdf-html",
     body |-> HTMLBody(book),
     pageSize |-> IF OptionOf(options, "paperSize", AbsentStr) = "a4" THEN "A4" ELSE "8.5in 11in",
     pageMargin |-> MarginsOr(options, [top |-> 100, right |-> 100, bottom |-> 100, left |-> 100]),
     fontFamily |-> StringOr(options, "fontFamily", "Georgia, serif"),
     fontSize |-> NumberOr(options, "fontSize", 12),
     lineHeight |-> NumberOr(options, "lineSpacing", 16)]

createWordHTML(book, options) ==
    [kind |-> "word-html",
     body |-> HTMLBody(book),
     fontFamily |-> StringOr(options, "fontFamily", "Times New Roman, serif"),
     fontSize |-> NumberOr(options, "fontSize", 12),
     lineHeight |-> NumberOr(options, "lineSpacing", 16)]

\* createPDFHTML(book, {...options, paperSize: options.paperSize || 'us-trade',
\*                      margins: options.margins || {0.75 on each side}})
createPrintReadyHTML(book, options) ==
    createPDFHTML(book,
        [f \in DOMAIN options \cup {"paperSize", "margins"} |->
            IF f = "paperSize" THEN StringOr(options, "paperSize", "us-trade")
            ELSE IF f = "margins"
                 THEN MarginsOr(options, [top |-> 75, right |-> 75, bottom |-> 75, left |-> 75])
                 ELSE options[f]])

\* The document exportToPDF / exportToDocx / exportPrintReady builds.
createHTML(book, options) ==
    IF options.format = "pdf" THEN createPDFHTML(book, options)
    ELSE IF options.format = "docx" THEN createWordHTML(book, options)
    ELSE createPrintReadyHTML(book, options)
\* chapters.map(... formatChapterContent(chapter.content) ...) throws on the
\* first entry without content.
HTMLThrows(book) == \E k \in DOMAIN chaptersOf(book) : ~chaptersOf(book)[k].hasContent

ExportInit ==
    /\ xpc = "start"
    /\ xbook \in ExportBooks
    /\ xopts \in ExportOptionSets
    /\ zip = <<>>
    /\ index = 0
    /\ blob = <<>>
    /\ html = NoDoc
    /\ downloads = <<>>
    /\ printed = <<>>
    /\ result = Pending
    /\ thrown = NoError
    /\ env = NoEnv

\* No export is running (the repository is modelled on its own).
ExportIdle ==
    /\ xpc = "idle"
    /\ xbook = [title |-> <<>>, hasContent |-> FALSE, content |-> <<>>, coverUrl |-> FALSE]
    /\ xopts = [format |-> "epub", includeImages |-> FALSE]
    /\ zip = <<>>
    /\ index = 0
    /\ blob = <<>>
    /\ html = NoDoc
    /\ downloads = <<>>
    /\ printed = <<>>
    /\ result = Pending
    /\ thrown = NoError
    /\ env = NoEnv

\* Mutant: the catch rethrows the message without the "Export failed: " prefix.
WrapMessageBare(error) ==
    IF error.isError THEN error.message ELSE "Unknown error"

\* catch (error) { errorMessage = error instanceof Error ? error.message
\*                 : 'Unknown error'; throw new Error(`Export failed: ...`) }
WrapMessage(error) ==
    "Export failed: " \o (IF error.isError THEN error.message ELSE "Unknown error")

\* An error thrown inside exportBook's try block reaches its catch.
Throw(error) ==
    /\ thrown' = error
    /\ result' = [state |-> "rejected", message |-> WrapMessage(error)]
    /\ xpc' = "done"

\* The awaited exporter returned: exportBook resolves.
Resolve ==
    /\ result' = [state |-> "resolved", message |-> ""]
    /\ xpc' = "done"
    /\ thrown' = thrown

\* switch (options.format)
Dispatch ==
    /\ xpc = "start"
    /\ IF xopts.format \in EpubFormats
       THEN xpc' = "mimetype" /\ UNCHANGED <<result, thrown>>
       ELSE IF xopts.format \in {"pdf", "docx", "print-ready"}
       THEN xpc' = "html" /\ UNCHANGED <<result, thrown>>
       ELSE Throw(Error("Unsupported export format: " \o xopts.format))
    /\ UNCHANGED <<xbook, xopts, zip, index, blob, html, downloads, printed, env>>
    /\ UNCHANGED outsideExport

\* The statements of exportToKindle / exportToEPUB up to the chapter loop, in
\* the order of the code: the step after each.
StaticSteps == <<"mimetype", "container", "opf", "ncx", "css", "title", "toc">>

\* Mutant: the archive is generated and saved before the chapter loop runs.
StepAfterSavesEarly(step) ==
    IF step = "toc" THEN "generate"
    ELSE StaticSteps[(CHOOSE i \in DOMAIN StaticSteps : StaticSteps[i] = step) + 1]

StepAfter(step) ==
    IF step = "toc" THEN "chapters"
    ELSE StaticSteps[(CHOOSE i \in DOMAIN StaticSteps : StaticSteps[i] = step) + 1]

StaticPath(step) ==
    CASE step = "mimetype" -> "mimetype"
      [] step = "container" -> "META-INF/container.xml"
      [] step = "opf" -> "OEBPS/content.opf"
      [] step = "ncx" -> "OEBPS/toc.ncx"
      [] step = "css" -> "OEBPS/stylesheet.css"
      [] step = "title" -> "OEBPS/title.xhtml"
      [] step = "toc" -> "OEBPS/toc.xhtml"

StaticData(step, book, options, uuid) ==
    CASE step = "mimetype" -> [kind |-> "mimetype", text |-> "application/epub+zip"]
      [] step = "container" -> createContainerXML
      [] step = "opf" -> createContentOPF(book, options, uuid)
      [] step = "ncx" -> createTOCNCX(book, uuid)
      [] step = "css" -> IF options.format = "kindle" THEN createKindleCSS(options)
                                                       ELSE createEPUBCSS(options)
      [] step = "title" -> createTitlePage(book)
      [] step = "toc" -> createTOCPage(book)

\* zip.file(path, data) for one of the fixed entries; generateUUID() is random.
WriteStatic(uuid) ==
    /\ xpc \in Range(StaticSteps)
    /\ uuid \in (IF xpc \in {"opf", "ncx"} THEN UUIDs ELSE {"uuid-a"})
    /\ zip' = MapSet(zip, StaticPath(xpc), StaticData(xpc, xbook, xopts, uuid))
    /\ xpc' = StepAfter(xpc)
    /\ UNCHANGED <<xbook, xopts, index, blob, html, downloads, printed, result, thrown, env>>
    /\ UNCHANGED outsideExport

\* book.content.forEach((chapter, index) => oebps.file(`chapter${index + 1}.xhtml`, ...))
WriteChapter ==
    /\ xpc = "chapters"
    /\ IF ~(xbook.hasContent) \/ index >= Len(xbook.content)
       THEN /\ xpc' = "cover"
            /\ UNCHANGED <<zip, index, result, thrown>>
       ELSE IF ~xbook.content[index + 1].hasContent
       THEN /\ Throw(Error(SplitOfUndefined))
            /\ UNCHANGED <<zip, index>>
       ELSE /\ zip' = MapSet(zip, "OEBPS/" \o ChapterFileName(index),
                             createChapterXHTML(xbook.content[index + 1]))
            /\ index' = index + 1
            /\ UNCHANGED <<xpc, result, thrown>>
    /\ UNCHANGED <<xbook, xopts, blob, html, downloads, printed, env>>
    /\ UNCHANGED outsideExport

\* if (book.coverUrl && options.includeImages)
CoverCheck ==
    /\ xpc = "cover"
    /\ xpc' = IF xbook.coverUrl /\ xopts.includeImages THEN "fetch" ELSE "generate"
    /\ UNCHANGED <<xbook, xopts, zip, index, blob, html, downloads, printed, result, thrown, env>>
    /\ UNCHANGED outsideExport

\* Mutant: the cover block has no try/catch, so its failure reaches exportBook's catch.
CoverCatchRethrows(how) ==
    /\ env' = [env EXCEPT !.cover = how]
    /\ Throw([raised |-> TRUE, isError |-> TRUE, message |-> "Failed to fetch"])
    /\ UNCHANGED zip

\* catch (e) { console.warn('Could not include cover image:', e) }
CoverCatch(how) ==
    /\ env' = [env EXCEPT !.cover = how]
    /\ xpc' = "generate"
    /\ UNCHANGED <<zip, result, thrown>>

\* const coverResponse = await fetch(book.coverUrl)
FetchCover(ok) ==
    /\ xpc = "fetch"
    /\ IF ok
       THEN xpc' = "blob" /\ UNCHANGED <<zip, result, thrown, env>>
       ELSE CoverCatch("fetchFailed")
    /\ UNCHANGED <<xbook, xopts, index, blob, html, downloads, printed>>
    /\ UNCHANGED outsideExport

\* const coverBlob = await coverResponse.blob(); oebps.file('cover.jpg', coverBlob)
ReadCoverBody(ok) ==
    /\ xpc = "blob"
    /\ IF ok
       THEN /\ zip' = MapSet(zip, "OEBPS/cover.jpg", [kind |-> "image"])
            /\ env' = [env EXCEPT !.cover = "ok"]
            /\ xpc' = "generate"
            /\ UNCHANGED <<result, thrown>>
       ELSE CoverCatch("blobFailed")
    /\ UNCHANGED <<xbook, xopts, index, blob, html, downloads, printed>>
    /\ UNCHANGED outsideExport

\* const content = await zip.generateAsync({ type: 'blob' })
GenerateArchive(ok) ==
    /\ xpc = "generate"
    /\ IF ok
       THEN /\ blob' = zip
            /\ env' = [env EXCEPT !.generate = "ok"]
            /\ xpc' = "save"
            /\ UNCHANGED <<result, thrown>>
       ELSE /\ env' = [env EXCEPT !.generate = "failed"]
            /\ Throw(Error("generateAsync failed"))
            /\ UNCHANGED blob
    /\ UNCHANGED <<xbook, xopts, zip, index, html, downloads, printed>>
    /\ UNCHANGED outsideExport

\* `${sanitizeFilename(book.title)}_kindle.epub` / `${...}.epub`
ArchiveName(book, format) ==
    Str(sanitizeFilename(book.title)) \o (IF format = "kindle" THEN "_kindle.epub" ELSE ".epub")

\* saveAs(blob, name): the download is triggered, or saveAs throws.
SaveAs(ok, name, data, e) ==
    IF ok
    THEN /\ downloads' = Append(downloads, [name |-> name, data |-> data])
         /\ env' = [e EXCEPT !.save = "ok"]
         /\ Resolve
    ELSE /\ env' = [e EXCEPT !.save = "failed"]
         /\ Throw(Error("saveAs failed"))
         /\ UNCHANGED downloads

\* saveAs(content, name), the last statement of exportToKindle / exportToEPUB
SaveArchive(ok) ==
    /\ xpc = "save"
    /\ SaveAs(ok, ArchiveName(xbook, xopts.format), blob, env)
    /\ UNCHANGED <<xbook, xopts, zip, index, blob, html, printed>>
    /\ UNCHANGED outsideExport

\* const htmlContent = createPDFHTML / createWordHTML / createPrintReadyHTML
BuildHTML ==
    /\ xpc = "html"
    /\ IF HTMLThrows(xbook)
       THEN Throw(Error(SplitOfUndefined)) /\ UNCHANGED html
       ELSE /\ html' = createHTML(xbook, xopts)
            /\ xpc' = IF xopts.format = "docx" THEN "savedocx" ELSE "window"
            /\ UNCHANGED <<result, thrown>>
    /\ UNCHANGED <<xbook, xopts, zip, index, blob, downloads, printed, env>>
    /\ UNCHANGED outsideExport

\* exportToDocx: saveAs(blob, `${sanitizeFilename(book.title)}.docx`)
SaveDocx(ok) ==
    /\ xpc = "savedocx"
    /\ SaveAs(ok, Str(sanitizeFilename(xbook.title)) \o ".docx", html, env)
    /\ UNCHANGED <<xbook, xopts, zip, index, blob, html, printed>>
    /\ UNCHANGED outsideExport

\* printWindow.document.write(htmlContent); printWindow.document.close()
WriteToWindow ==
    /\ printed' = Append(printed, html)
    /\ env' = [env EXCEPT !.window = "opened"]
    /\ Resolve
    /\ UNCHANGED downloads

\* Mutant: exportToPDF without its else branch (no fallback download).
ExportToPDFWindowNoFallback(opened, saveOk) ==
    /\ xpc = "window"
    /\ xopts.format = "pdf"
    /\ IF opened
       THEN WriteToWindow
       ELSE /\ env' = [env EXCEPT !.window = "blocked"]
            /\ Resolve
            /\ UNCHANGED <<printed, downloads>>
    /\ UNCHANGED <<xbook, xopts, zip, index, blob, html>>
    /\ UNCHANGED outsideExport

\* exportToPDF: window.open('', '_blank') gives a window or null
ExportToPDFWindow(opened, saveOk) ==
    /\ xpc = "window"
    /\ xopts.format = "pdf"
    /\ IF opened
       THEN WriteToWindow
       ELSE /\ SaveAs(saveOk, Str(sanitizeFilename(xbook.title)) \o "_print.html", html,
                      [env EXCEPT !.window = "blocked"])
            /\ UNCHANGED printed
    /\ UNCHANGED <<xbook, xopts, zip, index, blob, html>>
    /\ UNCHANGED outsideExport

\* exportPrintReady: the same window.open, with no else branch
ExportPrintReadyWindow(opened) ==
    /\ xpc = "window"
    /\ xopts.format = "print-ready"
    /\ IF opened
       THEN WriteToWindow
       ELSE /\ env' = [env EXCEPT !.window = "blocked"]
            /\ Resolve
            /\ UNCHANGED <<printed, downloads>>
    /\ UNCHANGED <<xbook, xopts, zip, index, blob, html>>
    /\ UNCHANGED outsideExport

\* The options exportBook is called with when its optional fields vary: each
\* is unset or set to a value that is not its fallback.
StyleOptionSets ==
    [format : Formats, includeImages : BOOLEAN,
     fontFamily : {AbsentStr, "Arial"},
     fontSize : {Absent, 14},
     lineSpacing : {Absent, 20},
     margins : {NoMargins, [top |-> 50, right |-> 25, bottom |-> 50, left |-> 25]},
     paperSize : {AbsentStr, "a4"}]

\* One export of one Book with a chapter and a cover, under any options.
StyleInit ==
    /\ xpc = "start"
    /\ xbook = [title |-> <<"A","&","B">>, hasContent |-> TRUE,
                content |-> << [title |-> <<"C","h"," ","1">>, hasContent |-> TRUE,
                                content |-> <<"P","a",".","\n","\n","Q","b",".">>] >>,
                coverUrl |-> TRUE]
    /\ xopts \in StyleOptionSets
    /\ zip = <<>>
    /\ index = 0
    /\ blob = <<>>
    /\ html = NoDoc
    /\ downloads = <<>>
    /\ printed = <<>>
    /\ result = Pending
    /\ thrown = NoError
    /\ env = NoEnv

ExportNext ==
    \/ Dispatch
    \/ \E u \in UUIDs : WriteStatic(u)
    \/ WriteChapter
    \/ CoverCheck
    \/ \E ok \in BOOLEAN : FetchCover(ok)
    \/ \E ok \in BOOLEAN : ReadCoverBody(ok)
    \/ \E ok \in BOOLEAN : GenerateArchive(ok)
    \/ \E ok \in BOOLEAN : SaveArchive(ok)
    \/ BuildHTML
    \/ \E ok \in BOOLEAN : SaveDocx(ok)
    \/ \E opened \in BOOLEAN, ok \in BOOLEAN : ExportToPDFWindow(opened, ok)
    \/ \E opened \in BOOLEAN : ExportPrintReadyWindow(opened)

\* ----------------------------------------------------------- export page

\* The ids of the formats the page lists.
ExportFormatIds == {"kindle", "epub", "pdf-ebook", "print-ready", "kdp-package", "web-preview"}

NoMutation == [pc |-> "idle", formatId |-> "none"]
\* generateExportMutation.isPending
isPending == mutation.pc # "idle"

\* useState: every format "ready", exportProgress 0; useBooks has no data yet.
ExportPageInit ==
    /\ exportFormats = [f \in ExportFormatIds |-> "ready"]
    /\ exportProgress = 0
    /\ mutation = NoMutation
    /\ exportInterval = FALSE
    /\ currentBook = FALSE

\* useBooks() has its data and the page renders the book's formats.
BooksLoaded ==
    /\ ~currentBook
    /\ currentBook' = TRUE
    /\ UNCHANGED <<exportFormats, exportProgress, mutation, exportInterval>>
    /\ UNCHANGED outsidePage

\* A click on the Export button of a format: the button is rendered for a
\* book, for a format that is neither "completed" nor "generating", and is
\* enabled while no mutation is pending. handleExport marks the format and
\* calls mutate, and mutationFn runs up to `await exportBook(...)`; its
\* "No book selected" throw needs a click on a page without a book.
handleExport(formatId) ==
    /\ currentBook
    /\ exportFormats[formatId] \notin {"completed", "generating"}
    /\ ~isPending
    /\ exportFormats' = [exportFormats EXCEPT ![formatId] = "generating"]
    /\ IF ~currentBook
       THEN /\ mutation' = [pc |-> "rejected", formatId |-> formatId]
            /\ UNCHANGED <<exportProgress, exportInterval>>
       ELSE /\ exportProgress' = 0
            /\ exportInterval' = TRUE
            /\ mutation' = [pc |-> "exporting", formatId |-> formatId]
    /\ UNCHANGED currentBook
    /\ UNCHANGED outsidePage

\* The progress simulation fires (every 200 ms while it is armed).
ExportIntervalFires ==
    /\ exportInterval
    /\ IF exportProgress >= 90
       THEN exportInterval' = FALSE /\ exportProgress' = 90
       ELSE exportProgress' = exportProgress + 10 /\ UNCHANGED exportInterval
    /\ UNCHANGED <<exportFormats, mutation, currentBook>>
    /\ UNCHANGED outsidePage

\* The mutant of ExportBookSettles: the catch does not clear the interval.
ExportBookSettlesKeepsInterval(ok) ==
    /\ mutation.pc = "exporting"
    /\ IF ok
       THEN /\ exportInterval' = FALSE
            /\ exportProgress' = 100
            /\ mutation' = [mutation EXCEPT !.pc = "resolved"]
       ELSE /\ mutation' = [mutation EXCEPT !.pc = "rejected"]
            /\ UNCHANGED <<exportInterval, exportProgress>>
    /\ UNCHANGED <<exportFormats, currentBook>>
    /\ UNCHANGED outsidePage

\* `await exportBook(currentBook, options)` settles (its own steps are the
\* export packager's): the interval is cleared either way, and mutationFn
\* returns its result or rethrows.
ExportBookSettles(ok) ==
    /\ mutation.pc = "exporting"
    /\ exportInterval' = FALSE
    /\ IF ok
       THEN /\ exportProgress' = 100
            /\ mutation' = [mutation EXCEPT !.pc = "resolved"]
       ELSE /\ mutation' = [mutation EXCEPT !.pc = "rejected"]
            /\ UNCHANGED exportProgress
    /\ UNCHANGED <<exportFormats, currentBook>>
    /\ UNCHANGED outsidePage

\* onSuccess(result): result.format is the formatId of the call.
onSuccess ==
    /\ mutation.pc = "resolved"
    /\ exportFormats' = [exportFormats EXCEPT ![mutation.formatId] = "completed"]
    /\ exportProgress' = 0
    /\ mutation' = NoMutation
    /\ UNCHANGED <<exportInterval, currentBook>>
    /\ UNCHANGED outsidePage

\* onError(error, formatId)
onError ==
    /\ mutation.pc = "rejected"
    /\ exportFormats' = [exportFormats EXCEPT ![mutation.formatId] = "error"]
    /\ exportProgress' = 0
    /\ mutation' = NoMutation
    /\ UNCHANGED <<exportInterval, currentBook>>
    /\ UNCHANGED outsidePage

ExportPageNext ==
    \/ BooksLoaded
    \/ \E formatId \in ExportFormatIds : handleExport(formatId)
    \/ ExportIntervalFires
    \/ \E ok \in BOOLEAN : ExportBookSettles(ok)
    \/ onSuccess
    \/ onError

\* -------------------------------------------------------- generator page

\* How many outlines the page holds at most.
MaxBooks == 2
\* How many seconds, in total, the interval callbacks of one generateFullBook
\* call run after they are due (a timer fires no earlier than its delay).
MaxLate == 1
\* setTimeout(() => clearInterval(progressInterval), 10000), in seconds; the
\* interval's delay of 1000 is one second.
CancelAfter == 10

\* useState<GeneratedBook[]>([])
GeneratorInit ==
    /\ generatedBooks = <<>>
    /\ generations = <<>>

\* handleOutlineGenerated(outline): the id is Date.now() of a later
\* millisecond than the ids before it.
handleOutlineGenerated ==
    /\ generatedBooks' = Append(generatedBooks,
          [id |-> Len(generatedBooks) + 1, status |-> "outline", progress |-> 0])
    /\ UNCHANGED generations
    /\ UNCHANGED outsideGenerator

\* generateFullBook(bookId), from the button shown for a book in status
\* "outline": the interval and the cancelling timeout are armed.
generateFullBook(bookId) ==
    /\ \E i \in DOMAIN generatedBooks :
          generatedBooks[i].id = bookId /\ generatedBooks[i].status = "outline"
    /\ generatedBooks' =
          [i \in DOMAIN generatedBooks |->
              IF generatedBooks[i].id = bookId
              THEN [generatedBooks[i] EXCEPT !.status = "generating", !.progress = 10]
              ELSE generatedBooks[i]]
    /\ generations' = Append(generations,
          [bookId |-> bookId, age |-> 0, due |-> 1, late |-> 0,
           interval |-> TRUE, timeout |-> TRUE])
    /\ UNCHANGED outsideGenerator

Min(a, b) == IF a < b THEN a ELSE b

\* The interval of call g fires, at or after the second it is due; the next
\* firing is due one second later.
GenerationIntervalFires(g) ==
    /\ generations[g].interval
    /\ generations[g].age >= generations[g].due
    /\ generatedBooks' =
          [i \in DOMAIN generatedBooks |->
              LET book == generatedBooks[i]
                  newProgress == Min(book.progress + 10, 100)
              IN  IF book.id = generations[g].bookId /\ book.status = "generating"
                  THEN [book EXCEPT !.progress = newProgress,
                                    !.status = IF newProgress = 100 THEN "completed"
                                                                    ELSE "generating"]
                  ELSE book]
    /\ generations' = [generations EXCEPT
          ![g].late = @ + (generations[g].age - generations[g].due),
          ![g].due = generations[g].age + 1]
    /\ UNCHANGED outsideGenerator

\* The timeout of call g fires: clearInterval(progressInterval).
GenerationTimeoutFires(g) ==
    /\ generations[g].timeout
    /\ generations[g].age >= CancelAfter
    /\ generations' = [generations EXCEPT ![g].interval = FALSE, ![g].timeout = FALSE]
    /\ UNCHANGED generatedBooks
    /\ UNCHANGED outsideGenerator

\* One second passes for the calls whose timers are armed: no timeout is left
\* due, and no interval is left due for longer than its call's lateness allows.
Second ==
    /\ \E g \in DOMAIN generations : generations[g].timeout
    /\ \A g \in DOMAIN generations :
          generations[g].timeout =>
              /\ generations[g].age < CancelAfter
              /\ \/ generations[g].age < generations[g].due
                 \/ generations[g].late + (generations[g].age - generations[g].due) < MaxLate
    /\ generations' =
          [g \in DOMAIN generations |->
              IF generations[g].timeout
              THEN [generations[g] EXCEPT !.age = @ + 1] ELSE generations[g]]
    /\ UNCHANGED generatedBooks
    /\ UNCHANGED outsideGenerator

GeneratorNext ==
    \/ /\ Len(generatedBooks) < MaxBooks
       /\ handleOutlineGenerated
    \/ \E i \in DOMAIN generatedBooks : generateFullBook(generatedBooks[i].id)
    \/ \E g \in DOMAIN generations : GenerationIntervalFires(g)
    \/ \E g \in DOMAIN generations : GenerationTimeoutFires(g)
    \/ Second

\* Both pages as they are first rendered.
PagesInit == ExportPageInit /\ GeneratorInit

\* A body that carries none of the modelled fields.
EmptyBookPatch == [id |-> Absent, status |-> AbsentStr, createdAt |-> Absent]
EmptyChapterPatch == [id |-> Absent, bookId |-> Absent, order |-> Absent, wordCount |-> Absent]
EmptyCoverPatch == [id |-> Absent, bookId |-> Absent, createdAt |-> Absent]

vars == <<repoVars, exportVars, textVars, ingestVars, uploadVars, authVars, pageVars, generatorVars>>

Init == RepoInit /\ ExportIdle /\ TextIdle /\ IngestIdle /\ UploadInit /\ AuthInit /\ PagesInit

\* The repository under requests that name any id. The PATCH routes hand
\* req.body to updateBook / updateChapter as it is, so a body carries any id
\* or bookId; updateCover has no route and gets a Partial<InsertCover>, which
\* has a bookId and no id. The other fields keep the values the create calls
\* give them. (An update of an id that is not stored returns before it reads
\* the payload.)
Next ==
    \/ /\ nextId <= MaxIds
       /\ createBook(AbsentStr)
    \/ \E id \in ReqIds :
          \E p \in (IF id \in DOMAIN books THEN BookPatches(ReqIds, {}, {})
                                         ELSE {EmptyBookPatch}) : updateBook(id, p)
    \/ \E id \in ReqIds : deleteBook(id)
    \/ /\ nextId <= MaxIds
       /\ \E b \in ReqIds : createChapter(b, 0, 0)
    \/ \E id \in ReqIds :
          \E p \in (IF id \in DOMAIN chapters THEN ChapterPatches(ReqIds, ReqIds, {}, {})
                                            ELSE {EmptyChapterPatch}) : updateChapter(id, p)
    \/ \E id \in ReqIds : deleteChapter(id)
    \/ /\ nextId <= MaxIds
       /\ \E b \in ReqIds : createCover(b)
    \/ \E id \in ReqIds :
          \E p \in (IF id \in DOMAIN covers THEN CoverPatches({}, ReqIds, {})
                                          ELSE {EmptyCoverPatch}) : updateCover(id, p)
    \/ \E id \in ReqIds : deleteCover(id)

Spec == Init /\ [][Next]_vars

\* Registration requests, interleaved at their awaits.
AuthSpec == Init /\ [][AuthNext]_vars

\* The repository as its sorted queries see it.
QuerySpec == Init /\ [][QueryNext]_vars

\* The repository as getBookStats sees it.
StatsSpec == Init /\ [][StatsNext]_vars

\* The timestamps of the stored books.
TimestampSpec == Init /\ [][TimestampNext]_vars

\* One exportBook call, from any Book and options, to its settlement.
ExportSpecInit == ExportInit /\ RepoInit /\ TextIdle /\ IngestIdle /\ UploadInit /\ AuthInit /\ PagesInit
ExportSpec == ExportSpecInit /\ [][ExportNext]_vars

\* One text function applied to one input string.
TextSpecInit == TextInit /\ RepoInit /\ ExportIdle /\ IngestIdle /\ UploadInit /\ AuthInit /\ PagesInit
TextSpec == TextSpecInit /\ [][TextNext]_vars

\* One processDocument call on one file.
IngestSpecInit == IngestInit /\ RepoInit /\ ExportIdle /\ TextIdle /\ UploadInit /\ AuthInit /\ PagesInit
IngestSpec == IngestSpecInit /\ [][IngestNext]_vars

\* The upload flows: the hook's uploadFile and the server's POST /api/upload.
UploadSpecInit == UploadInit /\ RepoInit /\ ExportIdle /\ TextIdle /\ IngestIdle /\ AuthInit /\ PagesInit
UploadSpec == UploadSpecInit /\ [][UploadNext]_vars


\* formatChapterContent applied to one chapter content.
ParagraphSpecInit == ParagraphInit /\ RepoInit /\ ExportIdle /\ IngestIdle /\ UploadInit /\ AuthInit /\ PagesInit
ParagraphSpec == ParagraphSpecInit /\ [][ParagraphNext]_vars

\* One exportBook call on one Book, from any setting of the optional fields.
StyleSpecInit == StyleInit /\ RepoInit /\ TextIdle /\ IngestIdle /\ UploadInit /\ AuthInit /\ PagesInit
StyleSpec == StyleSpecInit /\ [][ExportNext]_vars

\* Several uploadFile calls on one hook instance.
HookSpec == Init /\ [][HookNext]_vars
\* The Export page; a settled mutation's callbacks always run.
ExportPageSpec ==
    Init /\ [][ExportPageNext]_vars /\ WF_vars(onSuccess) /\ WF_vars(onError)

\* The Generator page and its timers.
GeneratorSpec == Init /\ [][GeneratorNext]_vars

\* ------------------------------------------------------------------ claims

\* C1: after deleteBook(id) has completed for a stored Book id, the Book is
\* gone and no stored Chapter and no stored Cover has bookId equal to id.
C1_DeleteBookCascades ==
    (last.op = "deleteBook" /\ last.ret) =>
        /\ last.id \notin DOMAIN books
        /\ \A c \in Values(chapters) : c.bookId # last.id
        /\ \A c \in Values(covers) : c.bookId # last.id

\* C2: deleteBook(id) for an id that is not a stored Book returns false and
\* leaves the books, chapters and covers collections exactly as they were.
C2_DeleteMissingBookMutatesNothing ==
    [][(last'.op = "deleteBook" /\ last'.id \notin DOMAIN books) =>
          (last'.ret = FALSE /\ UNCHANGED <<books, chapters, covers>>)]_vars

\* C3: every stored Chapter's and every stored Cover's bookId is the id of a
\* currently stored Book.
C3_ChildrenHaveStoredBook ==
    /\ \A c \in Values(chapters) : c.bookId \in DOMAIN books
    /\ \A c \in Values(covers) : c.bookId \in DOMAIN books

\* C4: whenever a step of exportBook throws (an unsupported format included),
\* exportBook rejects with the one error "Export failed: " followed by the
\* original error's message, and it rejects with nothing else.
C4_ExportFailedWrapsMessage ==
    /\ thrown.raised =>
          /\ xpc = "done"
          /\ result.state = "rejected"
          /\ result.message = "Export failed: " \o thrown.message
    /\ result.state = "rejected" => thrown.raised

\* An epub export threw in its chapter loop after writing one chapter file.
C4_Witness ==
    /\ xopts.format = "epub"
    /\ result.state = "rejected"
    /\ thrown.message = SplitOfUndefined
    /\ index = 1
    /\ "OEBPS/chapter1.xhtml" \in DOMAIN zip

\* Every entry a kindle/epub archive of this Book must hold.
RequiredPaths(book) ==
    {"mimetype", "META-INF/container.xml", "OEBPS/content.opf", "OEBPS/toc.ncx",
     "OEBPS/stylesheet.css", "OEBPS/title.xhtml", "OEBPS/toc.xhtml"}
    \cup {"OEBPS/chapter" \o ToString(k) \o ".xhtml" : k \in 1 .. Len(chaptersOf(book))}

\* C5: a kindle/epub export triggers at most one download, only of an archive
\* that holds every entry, and a run that rejects triggers none.
C5_DownloadOnlyCompleteArchive ==
    xopts.format \in EpubFormats =>
        /\ Len(downloads) <= 1
        /\ downloads # <<>> =>
              /\ RequiredPaths(xbook) \subseteq DOMAIN downloads[1].data
              /\ result.state = "resolved"
        /\ result.state = "rejected" => downloads = <<>>

\* A kindle export of a two-chapter Book has downloaded its archive.
C5_Witness ==
    /\ xopts.format = "kindle"
    /\ Len(chaptersOf(xbook)) = 2
    /\ Len(downloads) = 1
    /\ result.state = "resolved"

\* C6: with a cover URL and includeImages, a failed cover fetch or body read
\* does not abort a kindle/epub export: it resolves and downloads an archive
\* with every non-cover entry (unless archive generation or saveAs fails).
C6_CoverFailureDoesNotAbort ==
    ( /\ xopts.format \in EpubFormats
      /\ xpc = "done"
      /\ env.cover \in {"fetchFailed", "blobFailed"}
      /\ env.generate # "failed"
      /\ env.save # "failed" ) =>
        /\ result.state = "resolved"
        /\ Len(downloads) = 1
        /\ RequiredPaths(xbook) \subseteq DOMAIN downloads[1].data

\* An epub export resolved although reading the cover body had failed.
C6_Witness ==
    /\ xopts.format = "epub"
    /\ xpc = "done"
    /\ env.cover = "blobFailed"
    /\ result.state = "resolved"
    /\ Len(chaptersOf(xbook)) = 1

\* The ids chapter1 .. chapterN.
ChapterIds(n) == [k \in 1 .. n |-> "chapter" \o ToString(k)]

\* C7: with includeImages = false the manifest of content.opf holds the four
\* static entries and chapter1..chapterN, the spine is title, toc,
\* chapter1..chapterN, and the entry for array position k names the file that
\* was written from Book.content[k].
C7_ManifestAndSpine ==
    (~xopts.includeImages /\ "OEBPS/content.opf" \in DOMAIN zip) =>
        LET opf == zip["OEBPS/content.opf"]
            n == Len(chaptersOf(xbook))
        IN  /\ [i \in DOMAIN opf.manifest |-> opf.manifest[i].id]
                  = <<"ncx", "stylesheet", "title", "toc">> \o ChapterIds(n)
            /\ opf.spine = <<"title", "toc">> \o ChapterIds(n)
            /\ \A k \in 1 .. n :
                  (k <= index \/ result.state = "resolved") =>
                      /\ ("OEBPS/" \o opf.manifest[4 + k].href) \in DOMAIN zip
                      /\ zip["OEBPS/" \o opf.manifest[4 + k].href]
                            = createChapterXHTML(xbook.content[k])

\* An epub export without images of two different chapters has resolved.
C7_Witness ==
    /\ xopts.format = "epub"
    /\ ~xopts.includeImages
    /\ result.state = "resolved"
    /\ Len(chaptersOf(xbook)) = 2
    /\ xbook.content[1] # xbook.content[2]

\* C8: toc.ncx holds N+2 navPoints (title page, TOC page, chapters in array
\* order) with playOrder 1..N+2, and the navPoint of array position k points
\* at the file that was written from Book.content[k].
C8_NavPoints ==
    "OEBPS/toc.ncx" \in DOMAIN zip =>
        LET nav == zip["OEBPS/toc.ncx"].navMap
            n == Len(chaptersOf(xbook))
        IN  /\ Len(nav) = n + 2
            /\ \A i \in 1 .. n + 2 : nav[i].playOrder = i
            /\ nav[1].src = "title.xhtml"
            /\ nav[2].src = "toc.xhtml"
            /\ \A k \in 1 .. n :
                  /\ nav[k + 2].src = "chapter" \o ToString(k) \o ".xhtml"
                  /\ (k <= index \/ result.state = "resolved") =>
                        /\ ("OEBPS/" \o nav[k + 2].src) \in DOMAIN zip
                        /\ zip["OEBPS/" \o nav[k + 2].src]
                              = createChapterXHTML(xbook.content[k])

\* A kindle export of two different chapters has resolved.
C8_Witness ==
    /\ xopts.format = "kindle"
    /\ result.state = "resolved"
    /\ Len(chaptersOf(xbook)) = 2
    /\ xbook.content[1] # xbook.content[2]

\* C9: a pdf export whose print window is blocked resolves and triggers
\* exactly one download, of the HTML document, named
\* <sanitized-title>_print.html (unless saveAs itself fails); when a window
\* opens, the document is written there and nothing is downloaded.
C9_PdfFallbackDownload ==
    (xopts.format = "pdf" /\ xpc = "done") =>
        /\ (env.window = "blocked" /\ env.save # "failed") =>
              /\ result.state = "resolved"
              /\ html.kind = "pdf-html"
              /\ downloads = << [name |-> Str(sanitizeFilename(xbook.title)) \o "_print.html",
                                 data |-> html] >>
              /\ printed = <<>>
        /\ env.window = "opened" =>
              /\ result.state = "resolved"
              /\ printed = <<html>>
              /\ downloads = <<>>
        /\ (~thrown.raised) => env.window \in {"blocked", "opened"}

\* A pdf export of "Test Title!" with the window blocked has downloaded
\* test_title__print.html.
C9_Witness ==
    /\ xopts.format = "pdf"
    /\ xpc = "done"
    /\ env.window = "blocked"
    /\ Len(downloads) = 1
    /\ downloads[1].name = "test_title__print.html"

\* C10: a print-ready export that resolves has produced a print window or a
\* downloadable file (when the window is blocked it falls back to a download).
C10_PrintReadyFallback ==
    (xopts.format = "print-ready" /\ xpc = "done" /\ result.state = "resolved") =>
        (printed # <<>> \/ downloads # <<>>)

\* The extensions the specification lists for validateFileType.
ListedExtensions ==
    { <<"p","d","f">>, <<"d","o","c","x">>, <<"o","d","t">>, <<"r","t","f">>,
      <<"t","x","t">>, <<"m","d">>, <<"m","a","r","k","d","o","w","n">>,
      <<"o","d","s">>, <<"o","d","p">> }
Dots(filename) == {i \in DOMAIN filename : filename[i] = "."}
\* What follows the last dot of a file name that has one.
AfterLastDot(filename) ==
    LET d == CHOOSE i \in Dots(filename) : \A j \in Dots(filename) : j <= i
    IN  SubSeq(filename, d + 1, Len(filename))

\* C11: validateFileType (client and server copy) returns true exactly when
\* the file name has an extension (a dot) and the extension, compared
\* case-insensitively, is a listed one; a name with no dot is rejected.
C11_AcceptsExactlyListedExtensions ==
    applied \in {"validateFileType", "validateFileTypeServer"} =>
        (verdict <=> /\ Dots(input) # {}
                     /\ LowerCase(AfterLastDot(input)) \in ListedExtensions)

\* The step in which uploadFile is called with a missing or rejected file:
\* the call returns null at once with the error set, and isUploading,
\* progress, the timers and the dispatched names stay as they were.
C12_RejectedCallStartsNothing ==
    \A c \in (DOMAIN calls') \ (DOMAIN calls) :
        (calls'[c].file = NoFile \/ ~validateFileType(calls'[c].file.name)) =>
            /\ calls'[c].pc = "returned"
            /\ calls'[c].ret = NullResult
            /\ uploadError' \in {"No file provided", UnsupportedMessage}
            /\ UNCHANGED <<isUploading, progress, intervals, timeouts, dispatched>>

\* The step in which POST /api/upload gets a missing or rejected file: it
\* answers 400 at once and calls nothing.
C12_RejectedRequestStartsNothing ==
    (/\ request.pc = "idle"
     /\ request'.pc # "idle"
     /\ request'.file = NoFile \/ ~validateFileTypeServer(request'.file.name)) =>
        /\ request'.pc = "responded"
        /\ request'.status = 400
        /\ ~request'.dispatched

\* C12: in the hook's uploadFile and in POST /api/upload, processDocument is
\* called only with a file name validateFileType accepted; a rejected file is
\* reported at once, is never dispatched, and starts no upload state.
C12_ValidateBeforeDispatch ==
    /\ [](/\ \A i \in DOMAIN dispatched : validateFileType(dispatched[i])
          /\ request.dispatched => validateFileTypeServer(request.file.name))
    /\ [][C12_RejectedCallStartsNothing /\ C12_RejectedRequestStartsNothing]_vars

\* The hook has turned a.exe away, and the server has too.
C12_Witness ==
    /\ Len(calls) = 1
    /\ calls[1].file.name = <<"a", ".", "e", "x", "e">>
    /\ calls[1].pc = "returned"
    /\ calls[1].ret = NullResult
    /\ uploadError = UnsupportedMessage
    /\ ~isUploading
    /\ dispatched = <<>>
    /\ request.file.name = <<"a", ".", "e", "x", "e">>
    /\ request.status = 400
    /\ request.message = "Unsupported file type"

\* C13: processDocument on a pdf, docx, odt or rtf file never rejects because
\* the extraction failed: whichever step throws, it resolves with a text, a
\* summary, no images, and a positive word count.
C13_ExtractionFailureGivesPlaceholder ==
    (/\ ingested = "client"
     /\ extraction # "ok"
     /\ ExtensionOf(file.name) \in {<<"p","d","f">>, <<"d","o","c","x">>,
                                    <<"o","d","t">>, <<"r","t","f">>}) =>
        /\ processed.state = "resolved"
        /\ processed.images = <<>>
        /\ processed.text # ""
        /\ processed.summary # ""
        /\ processed.wordCount > 0

\* A PDF whose page rendering threw, settled with the placeholder.
C13_Witness ==
    /\ ingested = "client"
    /\ extraction = "render"
    /\ file.name = <<"a", ".", "P", "D", "F">>
    /\ processed.state = "resolved"
    /\ processed.text = "PDF content extracted from a.PDF. Estimated 10999 words."
    /\ processed.wordCount = 10999

\* The word counts of the chapters stored under the keys ks, added up, a
\* missing one counting 0.
RECURSIVE StoredWords(_)
StoredWords(ks) ==
    IF ks = {} THEN 0
    ELSE LET k == CHOOSE x \in ks : TRUE
         IN  (IF chapters[k].wordCount = Absent THEN 0 ELSE chapters[k].wordCount)
             + StoredWords(ks \ {k})

\* C14: getBookStats returns the number of stored Books with status "draft"
\* or "in-progress", the number with status "published", and the sum of
\* wordCount over all stored Chapters (a missing one counting 0), and it
\* changes no repository state.
C14_StatsCountAndSum ==
    /\ [](last.op = "getBookStats" =>
            /\ last.ret.booksInProgress =
                   Cardinality({k \in DOMAIN books :
                                   books[k].status \in {"draft", "in-progress"}})
            /\ last.ret.publishedBooks =
                   Cardinality({k \in DOMAIN books : books[k].status = "published"})
            /\ last.ret.aiWordsGenerated = StoredWords(DOMAIN chapters))
    /\ [][last'.op = "getBookStats" => UNCHANGED <<books, chapters, covers, nextId>>]_vars

\* Stats of a repository with an "in-progress" book and two chapters, one
\* of them without a wordCount.
C14_Witness ==
    /\ last.op = "getBookStats"
    /\ last.ret.booksInProgress = 1
    /\ last.ret.publishedBooks = 0
    /\ last.ret.aiWordsGenerated = 2
    /\ \E k \in DOMAIN books : books[k].status = "in-progress"
    /\ \E j, k \in DOMAIN chapters : chapters[j].wordCount = Absent /\ chapters[k].wordCount = 2

C16_UpdatedNotBeforeCreated ==
    \A k \in DOMAIN books : books[k].updatedAt >= books[k].createdAt

\* The rows of a query's answer are exactly the records stored under the
\* keys ks, each once.
ExactlyOnce(rows, m, ks) ==
    /\ Len(rows) = Cardinality(ks)
    /\ {rows[i] : i \in DOMAIN rows} = {m[k] : k \in ks}

\* C17: getChaptersByBookId(b) returns exactly the stored Chapters with
\* bookId b, each once, in non-decreasing order; getBooks returns every
\* stored Book and getCoversByBookId(b) every Cover of b, each once, in
\* non-increasing creation time.
C17_QueriesFilterAndSort ==
    /\ last.op = "getChaptersByBookId" =>
          /\ ExactlyOnce(last.ret, chapters,
                         {k \in DOMAIN chapters : chapters[k].bookId = last.id})
          /\ \A i, j \in DOMAIN last.ret : i < j => last.ret[i].order <= last.ret[j].order
    /\ last.op = "getBooks" =>
          /\ ExactlyOnce(last.ret, books, DOMAIN books)
          /\ \A i, j \in DOMAIN last.ret :
                i < j => last.ret[i].createdAt >= last.ret[j].createdAt
    /\ last.op = "getCoversByBookId" =>
          /\ ExactlyOnce(last.ret, covers, {k \in DOMAIN covers : covers[k].bookId = last.id})
          /\ \A i, j \in DOMAIN last.ret :
                i < j => last.ret[i].createdAt >= last.ret[j].createdAt

\* Two chapters of one book come back in the reverse of the order they were
\* created in, while a chapter of another book is stored.
C17_Witness ==
    /\ last.op = "getChaptersByBookId"
    /\ Len(last.ret) = 2
    /\ last.ret[1].id > last.ret[2].id
    /\ last.ret[1].order < last.ret[2].order
    /\ \E k \in DOMAIN chapters : chapters[k].bookId # last.id

\* C18: sanitizeFilename is idempotent and its result holds only characters
\* of [a-z0-9_].
C18_SanitizeIdempotentClosed ==
    applied = "sanitizeFilename" =>
        /\ sanitizeFilename(output) = output
        /\ \A i \in DOMAIN output :
              output[i] \in Range(LowerSeq) \cup Range(DigitSeq) \cup {"_"}

\* A title with an upper-case letter, punctuation and a digit, sanitized.
C18_Witness ==
    /\ applied = "sanitizeFilename"
    /\ input = <<"T", "!", "9">>
    /\ output = <<"t", "_", "9">>

Alphanumeric == Range(UpperSeq) \cup Range(LowerSeq) \cup Range(DigitSeq)
\* A title with every maximal run of non-alphanumeric characters replaced by
\* one "_" and the rest lower-cased.
RECURSIVE RunsToUnderscore(_)
RunsToUnderscore(t) ==
    IF t = <<>> THEN <<>>
    ELSE IF Head(t) \in Alphanumeric
         THEN <<toLowerCase(Head(t))>> \o RunsToUnderscore(Tail(t))
         ELSE IF Len(t) >= 2 /\ t[2] \notin Alphanumeric
              THEN RunsToUnderscore(Tail(t))
              ELSE <<"_">> \o RunsToUnderscore(Tail(t))
\* A title with every non-alphanumeric character replaced by "_" and the
\* rest lower-cased.
EachToUnderscore(t) ==
    [i \in DOMAIN t |-> IF t[i] \in Alphanumeric THEN toLowerCase(t[i]) ELSE "_"]
\* What follows the sanitized title in the name of a format's download.
NameSuffix(format) ==
    CASE format = "kindle" -> "_kindle.epub"
      [] format = "epub" -> ".epub"
      [] format = "docx" -> ".docx"
      [] format = "pdf" -> "_print.html"
      [] OTHER -> ""

\* C19 as stated: every export names its download after the title with each
\* maximal run of non-alphanumeric characters replaced by a single "_" and
\* the rest lower-cased, followed by the format's suffix and extension.
C19_RunsBecomeOneUnderscore ==
    \A i \in DOMAIN downloads :
        downloads[i].name = Str(RunsToUnderscore(xbook.title)) \o NameSuffix(xopts.format)

\* C19, amended: every export names its download after the title with each
\* non-alphanumeric character replaced by "_" (a run of n of them by n
\* underscores) and the rest lower-cased, followed by the format's suffix and
\* extension.
C19_EachCharacterBecomesUnderscore ==
    \A i \in DOMAIN downloads :
        downloads[i].name = Str(EachToUnderscore(xbook.title)) \o NameSuffix(xopts.format)

\* The Kindle export of "A, B": two underscores for the comma and the space.
C19_Witness ==
    /\ xbook.title = <<"A", ",", " ", "B">>
    /\ xopts.format = "kindle"
    /\ Len(downloads) = 1
    /\ downloads[1].name = "a__b_kindle.epub"

\* A standard XML unescape: the five predefined entities and the character
\* references of the apostrophe, read left to right.
XMLEntities ==
    { [text |-> <<"&","a","m","p",";">>, char |-> "&"],
      [text |-> <<"&","l","t",";">>, char |-> "<"],
      [text |-> <<"&","g","t",";">>, char |-> ">"],
      [text |-> <<"&","q","u","o","t",";">>, char |-> "\""],
      [text |-> <<"&","a","p","o","s",";">>, char |-> "'"],
      [text |-> <<"&","#","3","9",";">>, char |-> "'"],
      [text |-> <<"&","#","x","2","7",";">>, char |-> "'"] }
StartsWith(t, prefix) ==
    Len(t) >= Len(prefix) /\ SubSeq(t, 1, Len(prefix)) = prefix
RECURSIVE unescapeXML(_)
unescapeXML(t) ==
    IF t = <<>> THEN <<>>
    ELSE IF \E e \in XMLEntities : StartsWith(t, e.text)
         THEN LET e == CHOOSE x \in XMLEntities : StartsWith(t, x.text)
              IN  <<e.char>> \o unescapeXML(SubSeq(t, Len(e.text) + 1, Len(t)))
         ELSE <<Head(t)>> \o unescapeXML(Tail(t))

\* C20: a standard XML unescape of escapeXML(s) gives s again, for strings
\* over an alphabet with & < > " ' and with pieces that are entities already.
C20_EscapeRoundTrips ==
    applied = "escapeXML" => unescapeXML(output) = input

\* A text that holds an entity, a "<" and an apostrophe, escaped.
C20_Witness ==
    /\ applied = "escapeXML"
    /\ input = <<"&","l","t",";", "<", "'">>
    /\ Str(output) = "&amp;lt;&lt;&#39;"


\* A content holds the separator split('\n\n') looks for.
HasBlankLine(t) == \E i \in 1 .. Len(t) - 1 : t[i] = "\n" /\ t[i + 1] = "\n"
\* The text between its first and its last character that is not whitespace.
Stripped(t) ==
    LET solid == {i \in DOMAIN t : t[i] \notin Whitespace}
    IN  IF solid = {} THEN <<>>
        ELSE SubSeq(t, CHOOSE i \in solid : \A j \in solid : i <= j,
                       CHOOSE i \in solid : \A j \in solid : i >= j)

\* C21 as stated: a content without a blank-line separator gives exactly one
\* paragraph, whose body is escapeXML of the original text, character for
\* character.
C21_OneParagraphOfOriginalText ==
    (applied = "formatChapterContent" /\ ~HasBlankLine(input)) =>
        output = <<escapeXML(input)>>

\* C21, amended: a content without a blank-line separator gives exactly one
\* paragraph, whose body is escapeXML of the text without its leading and
\* trailing whitespace; it is escapeXML of the original text when the text
\* neither starts nor ends with whitespace.
C21_OneParagraphOfTrimmedText ==
    (applied = "formatChapterContent" /\ ~HasBlankLine(input)) =>
        /\ Len(output) = 1
        /\ output[1] = escapeXML(Stripped(input))
        /\ (input = <<>> \/ (input[1] \notin Whitespace /\ input[Len(input)] \notin Whitespace))
               => output[1] = escapeXML(input)

\* A content with a leading space, a "<" and a trailing newline, formatted.
C21_Witness ==
    /\ applied = "formatChapterContent"
    /\ input = <<" ", "<", "\n">>
    /\ output = << <<"&","l","t",";">> >>

\* The options of an export, with the format replaced.
WithFormat(options, format) ==
    [f \in DOMAIN options |-> IF f = "format" THEN format ELSE options[f]]

\* C22 as stated: the archive a kindle export downloads holds, entry for
\* entry, what an epub export of the same Book and options writes, apart
\* from the random identifier.
C22_KindleArchiveIsEpubArchive ==
    (xopts.format = "kindle" /\ downloads # <<>>) =>
        \A i \in DOMAIN StaticSteps :
            \E u \in UUIDs :
                downloads[1].data[StaticPath(StaticSteps[i])]
                    = StaticData(StaticSteps[i], xbook, WithFormat(xopts, "epub"), u)

\* C22, amended: the archive a kindle export downloads holds what an epub
\* export of the same Book and options writes, apart from the random
\* identifier and from stylesheet.css: the Kindle stylesheet has the same
\* body font, size and line height and other fixed rules. The download is
\* named <title>_kindle.epub where the epub export names it <title>.epub.
C22_KindleDiffersInStylesheetAndName ==
    (xopts.format = "kindle" /\ downloads # <<>>) =>
        LET data == downloads[1].data
            epubCSS == createEPUBCSS(WithFormat(xopts, "epub"))
            css == data["OEBPS/stylesheet.css"]
        IN  /\ \A i \in DOMAIN StaticSteps :
                  StaticSteps[i] # "css" =>
                      \E u \in UUIDs :
                          data[StaticPath(StaticSteps[i])]
                              = StaticData(StaticSteps[i], xbook, WithFormat(xopts, "epub"), u)
            /\ \A k \in DOMAIN chaptersOf(xbook) :
                  data["OEBPS/" \o ChapterFileName(k - 1)]
                      = createChapterXHTML(chaptersOf(xbook)[k])
            /\ css # epubCSS
            /\ css.fontFamily = epubCSS.fontFamily
            /\ css.fontSize = epubCSS.fontSize
            /\ css.lineHeight = epubCSS.lineHeight
            /\ css.headingPageBreak /\ css.headingSizes /\ css.kf8Media
            /\ downloads[1].name = Str(sanitizeFilename(xbook.title)) \o "_kindle.epub"
            /\ ArchiveName(xbook, "epub") = Str(sanitizeFilename(xbook.title)) \o ".epub"

\* A kindle export of a two-chapter Book with its cover has downloaded.
C22_Witness ==
    /\ xopts.format = "kindle"
    /\ Len(chaptersOf(xbook)) = 2
    /\ Len(downloads) = 1
    /\ "OEBPS/cover.jpg" \in DOMAIN downloads[1].data
    /\ downloads[1].data["OEBPS/stylesheet.css"].comment = "Kindle-optimized styles"

\* The options with every unset optional field set to the given fallbacks.
FilledWith(options, fontFamily, margins) ==
    [f \in DOMAIN options |->
        IF f = "fontFamily" THEN StringOr(options, f, fontFamily)
        ELSE IF f = "fontSize" THEN NumberOr(options, f, 12)
        ELSE IF f = "lineSpacing" THEN NumberOr(options, f, 16)
        ELSE IF f = "margins" THEN MarginsOr(options, margins)
        ELSE IF f = "paperSize" THEN StringOr(options, f, "us-trade")
        ELSE options[f]]
OneInch == [top |-> 100, right |-> 100, bottom |-> 100, left |-> 100]
\* What a format's export generates from the options: the stylesheet of the
\* archive, or the HTML document.
Generated(options) ==
    IF options.format = "kindle" THEN createKindleCSS(options)
    ELSE IF options.format = "epub" THEN createEPUBCSS(options)
    ELSE createHTML(xbook, options)
\* The export has generated its stylesheet or its document.
HasGenerated ==
    \/ xopts.format \in EpubFormats /\ "OEBPS/stylesheet.css" \in DOMAIN zip
    \/ xopts.format \in {"pdf", "docx", "print-ready"} /\ html # NoDoc
GeneratedOutput == IF xopts.format \in EpubFormats THEN zip["OEBPS/stylesheet.css"] ELSE html

\* C23 as stated: in every format, what an export generates is what it
\* generates from the options with each unset field set to the documented
\* default: "Georgia, serif", 12pt, 1.6, 1in on all four sides, "us-trade".
C23_UnsetTakesDocumentedDefault ==
    HasGenerated =>
        GeneratedOutput = Generated(FilledWith(xopts, "Georgia, serif", OneInch))

\* C23, amended: what an export generates is what it generates from the
\* options with each unset field set to the format's default: 12pt, 1.6 and
\* "us-trade" in every format; "Georgia, serif" in every format but docx,
\* whose font family is "Times New Roman, serif"; margins of 1in for pdf and
\* of 0.75in for print-ready (the other formats write no page margins).
C23_UnsetTakesFormatDefault ==
    HasGenerated =>
        GeneratedOutput =
            Generated(FilledWith(xopts,
                IF xopts.format = "docx" THEN "Times New Roman, serif" ELSE "Georgia, serif",
                IF xopts.format = "print-ready"
                THEN [top |-> 75, right |-> 75, bottom |-> 75, left |-> 75] ELSE OneInch))

\* A pdf export with every optional field unset has built its document with
\* the fallbacks.
C23_Witness ==
    /\ xopts.format = "pdf"
    /\ xopts.fontFamily = AbsentStr /\ xopts.fontSize = Absent /\ xopts.lineSpacing = Absent
    /\ xopts.margins = NoMargins /\ xopts.paperSize = AbsentStr
    /\ html # NoDoc
    /\ html.fontFamily = "Georgia, serif" /\ html.fontSize = 12 /\ html.lineHeight = 16
    /\ html.pageMargin = OneInch
    /\ html.pageSize = "8.5in 11in"

\* The archive paths the manifest of a content.opf declares.
DeclaredPaths(opf) == {"OEBPS/" \o opf.manifest[k].href : k \in DOMAIN opf.manifest}
\* The entries of an archive that are not its packaging (the mimetype, the
\* container and the package document itself).
ContentPaths(data) ==
    (DOMAIN data) \ {"mimetype", "META-INF/container.xml", "OEBPS/content.opf"}

\* C24: in every archive a kindle or epub export downloads, every file the
\* manifest of content.opf declares is an entry of the archive and every
\* content entry of the archive is declared.
C24_ManifestAgreesWithArchive ==
    xopts.format \in EpubFormats =>
        \A i \in DOMAIN downloads :
            DeclaredPaths(downloads[i].data["OEBPS/content.opf"])
                = ContentPaths(downloads[i].data)

\* C25: every stored book, chapter, cover and user is stored under its own
\* id: the id field of the record under key k is k.
C25_StoredUnderOwnId ==
    /\ \A k \in DOMAIN books : books[k].id = k
    /\ \A k \in DOMAIN chapters : chapters[k].id = k
    /\ \A k \in DOMAIN covers : covers[k].id = k
    /\ \A k \in DOMAIN users : users[k].id = k

\* The error processDocument settles with for an extension its switch does
\* not list.
UnsupportedFormat(f) ==
    "Failed to process document: Unsupported file format: " \o Str(ExtensionOf(f.name))

\* C26: a file whose name validateFileType accepts is dispatched to an
\* extractor by processDocument, on the client and on the server: the call
\* never settles with the "Unsupported file format" error.
C26_AcceptedIsDispatched ==
    /\ (ingested = "client" /\ validateFileType(file.name)) =>
           processed.message # UnsupportedFormat(file)
    /\ (ingested = "server" /\ validateFileTypeServer(file.name)) =>
           processed.message # UnsupportedFormat(file)

\* C27: once an uploadFile call has ended in failure and no call is in
\* flight, progress is 0 and stays 0 for as long as no further call is made.
C27_ProgressStaysZeroAfterFailure ==
    [][ ( /\ calls # <<>>
          /\ calls[Len(calls)].toast = "Upload Failed"
          /\ \A c \in DOMAIN calls : calls[c].pc = "returned"
          /\ calls' = calls )
        => (progress = 0 /\ progress' = 0) ]_vars

\* A call is between its validation and its return.
InFlight(c) == calls[c].pc \in {"processing", "fetching", "reading"}

\* C28: whenever a validated upload of the hook instance is in flight,
\* isUploading is true and progress is within 0..100.
C28_InFlightShowsUploading ==
    (\E c \in DOMAIN calls : InFlight(c)) =>
        /\ isUploading
        /\ progress \in 0 .. 100

\* The status changes the page allows a format.
StatusEdges ==
    { <<"ready", "generating">>, <<"error", "generating">>,
      <<"generating", "completed">>, <<"generating", "error">> }
\* While no export is in flight no format is generating, exportProgress is 0
\* and the progress interval is stopped; while one is in flight its format,
\* and no other, is generating.
C29_OneExportInFlight ==
    /\ ~isPending =>
          /\ \A f \in ExportFormatIds : exportFormats[f] # "generating"
          /\ exportProgress = 0
          /\ ~exportInterval
    /\ isPending =>
          \A f \in ExportFormatIds : exportFormats[f] = "generating" <=> f = mutation.formatId
    /\ exportProgress \in 0 .. 100
\* A step changes the status of at most one format, along an allowed edge, and
\* starts an export only when none is in flight.
C29_StatusStep ==
    /\ \A f \in ExportFormatIds :
          exportFormats'[f] # exportFormats[f] =>
              /\ <<exportFormats[f], exportFormats'[f]>> \in StatusEdges
              /\ \A g \in ExportFormatIds \ {f} : exportFormats'[g] = exportFormats[g]
    /\ \A f \in ExportFormatIds :
          (exportFormats[f] # "generating" /\ exportFormats'[f] = "generating") => ~isPending

\* C29: a format's status moves only ready/error -> generating -> completed
\* or error; at most one export is in flight; with none in flight
\* exportProgress is 0 and its timer is stopped; and once the export of a
\* generating format has settled the format becomes completed (exportBook
\* resolved) or error (it rejected).
C29_StatusLifecycle ==
    /\ []C29_OneExportInFlight
    /\ [][C29_StatusStep]_vars
    /\ \A f \in ExportFormatIds :
          /\ (mutation = [pc |-> "resolved", formatId |-> f]) ~> (exportFormats[f] = "completed")
          /\ (mutation = [pc |-> "rejected", formatId |-> f]) ~> (exportFormats[f] = "error")

\* One export has completed, another has failed and was started again, with
\* the progress simulation at 30.
C29_Witness ==
    /\ exportFormats["kindle"] = "completed"
    /\ exportFormats["epub"] = "generating"
    /\ exportFormats["pdf-ebook"] = "error"
    /\ mutation = [pc |-> "exporting", formatId |-> "epub"]
    /\ exportProgress = 30
    /\ exportInterval

\* The book a generateFullBook call was made for.
BookOf(g) ==
    generatedBooks[CHOOSE i \in DOMAIN generatedBooks :
                      generatedBooks[i].id = generations[g].bookId]

\* C30: after generateFullBook(bookId) for a book in status "outline", the
\* book's progress is a multiple of 10 from 10 to 100, its status is
\* "completed" exactly when its progress is 100, and its simulation timer is
\* cancelled only once it is "completed".
C30_CompletedBeforeTimerCancelled ==
    \A g \in DOMAIN generations :
        /\ BookOf(g).progress \in {10 * k : k \in 1 .. 10}
        /\ BookOf(g).status = "completed" <=> BookOf(g).progress = 100
        /\ BookOf(g).status \in {"generating", "completed"}
        /\ ~generations[g].timeout => BookOf(g).status = "completed"
====
